---- MODULE Spec2Model ----
(***************************************************************************)
(* Model of the proposal lifecycle engine of Toobix-bot/Version_4:         *)
(* ApprovalGate / policy_check (core/governance.py), the diff helpers      *)
(* (core/diffing.py), the canned proposals of EvolutionAgent (core/        *)
(* agents.py) and Orchestrator.cycle / apply_after_approval / undo_last    *)
(* (core/orchestrator.py), with the sandbox and the snapshots of           *)
(* TwinCoordinator and SnapshotManager (core/twin.py).                     *)
(*                                                                         *)
(* Text is modelled by TLA+ strings, which TLC treats as sequences of      *)
(* characters (Len, SubSeq and \o work on them), so the string functions   *)
(* of the code (startswith, strip, lower, splitlines, replace, join) are   *)
(* computed character by character as Python computes them.               *)
(***************************************************************************)
EXTENDS Integers, Naturals, Sequences, FiniteSets, TLC

\* ------------------------------------------------------------------------
\* Python string primitives
\* ------------------------------------------------------------------------

\* s[i] (1-based) as a one-character string
Ch(s, i) == SubSeq(s, i, i)

\* s[k:] for k >= 0
SliceFrom(s, k) == SubSeq(s, k + 1, Len(s))

startswith(s, p) == Len(s) >= Len(p) /\ SubSeq(s, 1, Len(p)) = p

endswith(s, p) == Len(s) >= Len(p) /\ SubSeq(s, Len(s) - Len(p) + 1, Len(s)) = p

\* t in s
contains(s, t) == \E i \in 1..(Len(s) + 1) : i + Len(t) - 1 <= Len(s) /\ SubSeq(s, i, i + Len(t) - 1) = t

\* the whitespace str.strip() removes (the members the modelled texts use)
IsSpace(c) == c \in {" ", "\t", "\n", "\r", "\f"}

lstrip(s) ==
    IF \A i \in 1..Len(s) : IsSpace(Ch(s, i)) THEN ""
    ELSE LET k == CHOOSE i \in 1..Len(s) : ~IsSpace(Ch(s, i)) /\ \A j \in 1..(i - 1) : IsSpace(Ch(s, j))
         IN  SubSeq(s, k, Len(s))

rstrip(s) ==
    IF \A i \in 1..Len(s) : IsSpace(Ch(s, i)) THEN ""
    ELSE LET k == CHOOSE i \in 1..Len(s) : ~IsSpace(Ch(s, i)) /\ \A j \in (i + 1)..Len(s) : IsSpace(Ch(s, j))
         IN  SubSeq(s, 1, k)

strip(s) == lstrip(rstrip(s))

UpperCase == "ABCDEFGHIJKLMNOPQRSTUVWXYZ"
LowerCase == "abcdefghijklmnopqrstuvwxyz"

lower_char(c) ==
    IF \E i \in 1..Len(UpperCase) : Ch(UpperCase, i) = c
    THEN Ch(LowerCase, CHOOSE i \in 1..Len(UpperCase) : Ch(UpperCase, i) = c)
    ELSE c

\* str.lower(), character by character (halving keeps the evaluation shallow)
RECURSIVE lower(_)
lower(s) ==
    IF Len(s) = 0 THEN ""
    ELSE IF Len(s) = 1 THEN lower_char(s)
    ELSE lower(SubSeq(s, 1, Len(s) \div 2)) \o lower(SubSeq(s, Len(s) \div 2 + 1, Len(s)))

\* str.replace('/', '_')
RECURSIVE replace_slash(_)
replace_slash(s) ==
    IF Len(s) = 0 THEN ""
    ELSE IF Len(s) = 1 THEN (IF s = "/" THEN "_" ELSE s)
    ELSE replace_slash(SubSeq(s, 1, Len(s) \div 2)) \o replace_slash(SubSeq(s, Len(s) \div 2 + 1, Len(s)))

\* the line boundaries of str.splitlines() (the members the modelled texts use)
IsLineBreak(c) == c \in {"\n", "\r", "\f"}

\* the positions where a line boundary starts: "\r\n" is one boundary
boundary_starts(s) ==
    {i \in 1..Len(s) : IsLineBreak(Ch(s, i)) /\ ~(Ch(s, i) = "\n" /\ i > 1 /\ Ch(s, i - 1) = "\r")}

boundary_len(s, i) == IF Ch(s, i) = "\r" /\ i < Len(s) /\ Ch(s, i + 1) = "\n" THEN 2 ELSE 1

\* str.splitlines(): a boundary ends the current line (also an empty one)
\* and no empty line follows the last boundary
splitlines(s) ==
    LET B      == boundary_starts(s)
        n      == Cardinality(B)
        nth(k) == CHOOSE b \in B : Cardinality({x \in B : x < b}) = k - 1
        from(k) == IF k = 1 THEN 1 ELSE nth(k - 1) + boundary_len(s, nth(k - 1))
        rest   == SubSeq(s, from(n + 1), Len(s))
    IN  [k \in 1..n |-> SubSeq(s, from(k), nth(k) - 1)] \o (IF rest = "" THEN <<>> ELSE <<rest>>)

\* sep.join(parts)
RECURSIVE join(_, _)
join(sep, parts) ==
    IF parts = <<>> THEN ""
    ELSE IF Len(parts) = 1 THEN parts[1]
    ELSE parts[1] \o sep \o join(sep, Tail(parts))

\* ', '.join(names)
comma_join(names) == join(", ", names)

\* ------------------------------------------------------------------------
\* core/governance.py: the policy gate
\* ------------------------------------------------------------------------

SAFE_PATTERNS == <<"README.md", "CONTRIBUTING.md", "CHANGELOG.md", "*.md", "*.txt", "*.json">>

DENY_PATTERNS == <<"requirements.txt", ".env", "*.pyc", "__pycache__">>

\* _match: equality, or "*.<ext>" as a suffix test on pattern[1:]
_match(pattern, filename) ==
    IF pattern = filename THEN TRUE
    ELSE IF startswith(pattern, "*.") THEN endswith(filename, SliceFrom(pattern, 1))
    ELSE FALSE

_is_safe(filename) ==
    /\ \E i \in 1..Len(SAFE_PATTERNS) : _match(SAFE_PATTERNS[i], filename)
    /\ ~ \E i \in 1..Len(DENY_PATTERNS) : _match(DENY_PATTERNS[i], filename)

\* the "touched" list of policy_check (= diffing.extract_touched_files):
\* line[6:] of every line starting with "+++ b/", not stripped
RECURSIVE touched_of_lines(_)
touched_of_lines(lines) ==
    IF lines = <<>> THEN <<>>
    ELSE (IF startswith(Head(lines), "+++ b/") THEN <<SliceFrom(Head(lines), 6)>> ELSE <<>>)
         \o touched_of_lines(Tail(lines))

extract_touched_files(diff) == touched_of_lines(splitlines(diff))

\* a policy loop that returns after its first file
first_unsafe_head_only(touched) ==
    IF touched = <<>> THEN [raised |-> FALSE, file |-> ""]
    ELSE [raised |-> ~_is_safe(Head(touched)), file |-> Head(touched)]

\* the loop of policy_check: the first unsafe file raises
RECURSIVE first_unsafe(_)
first_unsafe(touched) ==
    IF touched = <<>> THEN [raised |-> FALSE, file |-> ""]
    ELSE IF ~_is_safe(Head(touched)) THEN [raised |-> TRUE, file |-> Head(touched)]
    ELSE first_unsafe(Tail(touched))

\* policy_check(proposal): TRUE when it returns, FALSE when it raises PolicyViolation
policy_check(proposal) == ~first_unsafe(extract_touched_files(proposal.diff)).raised

\* a submit that appends before it checks
submit_append_first(pend, proposal) ==
    [raised |-> ~policy_check(proposal), pending |-> Append(pend, proposal)]

\* ApprovalGate.submit on a pending list: the new list, or the exception
submit(pend, proposal) ==
    IF policy_check(proposal)
    THEN [raised |-> FALSE, pending |-> Append(pend, proposal)]
    ELSE [raised |-> TRUE, pending |-> pend]

\* ApprovalGate.approve: pop the first entry with that id, or raise ValueError
HasId(pend, id) == \E i \in 1..Len(pend) : pend[i].id = id

FirstIndex(pend, id) == CHOOSE i \in 1..Len(pend) : pend[i].id = id /\ \A j \in 1..(i - 1) : pend[j].id # id

RemoveAt(seq, i) == SubSeq(seq, 1, i - 1) \o SubSeq(seq, i + 1, Len(seq))

\* a PatchProposal before ScoringAgent.score has run: score is None
NoScore == [clarity |-> 0, impact |-> 0, risk |-> 0, effort |-> 0, scored |-> FALSE]

\* the proposal of a call that found none
NoProposal == [id |-> "", description |-> "", diff |-> "", score |-> NoScore]

\* an approve that leaves the proposal in the list
approve_keeping(pend, id) ==
    IF HasId(pend, id)
    THEN [raised |-> FALSE, proposal |-> pend[FirstIndex(pend, id)], pending |-> pend]
    ELSE [raised |-> TRUE, proposal |-> NoProposal, pending |-> pend]

\* an approve that pops the last entry with that id
approve_last_match(pend, id) ==
    IF HasId(pend, id)
    THEN LET i == CHOOSE k \in 1..Len(pend) :
                      pend[k].id = id /\ \A j \in (k + 1)..Len(pend) : pend[j].id # id
         IN  [raised |-> FALSE, proposal |-> pend[i], pending |-> RemoveAt(pend, i)]
    ELSE [raised |-> TRUE, proposal |-> NoProposal, pending |-> pend]

approve(pend, id) ==
    IF HasId(pend, id)
    THEN [raised |-> FALSE, proposal |-> pend[FirstIndex(pend, id)],
          pending |-> RemoveAt(pend, FirstIndex(pend, id))]
    ELSE [raised |-> TRUE, proposal |-> NoProposal, pending |-> pend]

\* ------------------------------------------------------------------------
\* core/diffing.py
\* ------------------------------------------------------------------------

forbidden == <<"/etc/", "rm -rf", "Invoke-WebRequest">>

\* a scan that compares without lowering the diff
validate_diff_security_case_sensitive(diff) ==
    ~ \E i \in 1..Len(forbidden) : contains(diff, forbidden[i])

\* validate_diff_security(diff): TRUE when it returns, FALSE when it raises
validate_diff_security(diff) ==
    ~ \E i \in 1..Len(forbidden) : contains(lower(diff), lower(forbidden[i]))

\* ------------------------------------------------------------------------
\* The files under repo_root: a function from relative path to content.
\* A path is a directory when some file lies below it; the root is "".
\* ------------------------------------------------------------------------

\* the path before the last "/", the root "" when there is none
dirname(p) ==
    LET slashes == {i \in 1..Len(p) : Ch(p, i) = "/"}
    IN  IF slashes = {} THEN ""
        ELSE SubSeq(p, 1, (CHOOSE i \in slashes : \A j \in slashes : j <= i) - 1)

is_file(tree, p) == p \in DOMAIN tree

is_dir(tree, p) == p = "" \/ \E q \in DOMAIN tree : startswith(q, p \o "/")

\* Path.exists()
exists(tree, p) == is_file(tree, p) \/ is_dir(tree, p)

\* some proper ancestor of p is a regular file (mkdir(parents=True) then fails)
ancestor_is_file(tree, p) == \E q \in DOMAIN tree : startswith(p, q \o "/")

put(tree, p, content) == [q \in DOMAIN tree \cup {p} |-> IF q = p THEN content ELSE tree[q]]

unlink(tree, p) == [q \in DOMAIN tree \ {p} |-> tree[q]]

\* Path.write_text without mkdir: the parent directory must exist and the
\* path must not be a directory
write_text(tree, p, content) ==
    IF is_dir(tree, p) \/ ancestor_is_file(tree, p) \/ ~is_dir(tree, dirname(p))
    THEN [raised |-> TRUE, tree |-> tree]
    ELSE [raised |-> FALSE, tree |-> put(tree, p, content)]

\* apply_patch: target.parent.mkdir(parents=True, exist_ok=True); write_text
apply_patch(tree, filename, new_content) ==
    IF is_dir(tree, filename) \/ ancestor_is_file(tree, filename)
    THEN [raised |-> TRUE, tree |-> tree]
    ELSE [raised |-> FALSE, tree |-> put(tree, filename, new_content)]

\* Path.read_text: text mode with universal newlines, "\r\n" and "\r" are
\* read as "\n" (write_text writes "\n" as os.linesep, "\n" on POSIX)
RECURSIVE read_range(_, _, _)
read_range(content, lo, hi) ==
    IF lo > hi THEN ""
    ELSE IF lo = hi
    THEN (IF Ch(content, lo) = "\r" THEN "\n"
          ELSE IF Ch(content, lo) = "\n" /\ lo > 1 /\ Ch(content, lo - 1) = "\r" THEN ""
          ELSE Ch(content, lo))
    ELSE read_range(content, lo, (lo + hi) \div 2) \o read_range(content, (lo + hi) \div 2 + 1, hi)

read_text(content) == read_range(content, 1, Len(content))

\* The orchestrator's own files under repo_root. fs holds them as regular
\* files with the content Kept; what they hold is carried by state_file,
\* evo_log and version_log.
STATE_FILE == ".evo_state.json"

EVO_LOG == "logs/evo_log.jsonl"

VERSION_LOG == "logs/version_history.jsonl"

Kept == "<kept>"

\* open(path, "a") and a write, in the directory logs/ that the constructor
\* made: it raises when the path is a directory
append_line(tree, p) ==
    IF is_dir(tree, p)
    THEN [raised |-> TRUE, tree |-> tree]
    ELSE [raised |-> FALSE, tree |-> put(tree, p, Kept)]

\* ------------------------------------------------------------------------
\* core/agents.py: scoring and the canned proposals
\* ------------------------------------------------------------------------

Min(a, b) == IF a <= b THEN a ELSE b

\* a scoring without the cap on impact
score_uncapped(proposal) ==
    [clarity |-> 800, impact |-> 600 + 5 * Len(proposal.description),
     risk |-> 200, effort |-> 300, scored |-> TRUE]

\* ScoringAgent.score, in thousandths: clarity 0.8, impact 0.6 + min(0.3,
\* len(description)/200), risk 0.2, effort 0.3
score(proposal) ==
    [clarity |-> 800, impact |-> 600 + Min(300, 5 * Len(proposal.description)),
     risk |-> 200, effort |-> 300, scored |-> TRUE]

\* Score.composite, (clarity + impact) - (risk + effort) / 2, in halves of a
\* thousandth so that the division by two stays exact
composite(s) == 2 * (s.clarity + s.impact) - (s.risk + s.effort)

\* PatchProposal: the fields the modelled code reads (id, description, diff,
\* score); the diff bodies of the canned proposals are cut after their
\* first added line
PatchProposal(id, description, diff) ==
    [id |-> id, description |-> description, diff |-> diff, score |-> NoScore]

\* EvolutionAgent._fallback_static(state), keyed by state.cycle
_fallback_static(c) ==
    (IF c = 0
     THEN <<PatchProposal("p1", "Plain & friendly contributing basics.",
                          "--- a/CONTRIBUTING.md\n+++ b/CONTRIBUTING.md\n+# Contributing\n")>>
     ELSE <<>>)
    \o (IF c <= 1
        THEN <<PatchProposal("p2", "Add clearer bullet list + API + Web UI info.",
                             "--- a/README.md\n+++ b/README.md\n+<!-- Quickstart Enhancement Start -->\n")>>
        ELSE <<>>)
    \o (IF c = 2
        THEN <<PatchProposal("p_arch", "Basic architecture explanation for agents & orchestrator.",
                             "--- a/ARCHITECTURE.md\n+++ b/ARCHITECTURE.md\n+# Architekturueberblick\n")>>
        ELSE <<>>)
    \o (IF c = 3
        THEN <<PatchProposal("p_roadmap", "Outline future improvements and priorities.",
                             "--- a/ROADMAP.md\n+++ b/ROADMAP.md\n+# Roadmap\n")>>
        ELSE <<>>)
    \o (IF c = 4
        THEN <<PatchProposal("p_testing", "Explain how to run and extend tests.",
                             "--- a/TESTING.md\n+++ b/TESTING.md\n+# Testing Leitfaden\n")>>
        ELSE <<>>)

\* ------------------------------------------------------------------------
\* agents.py: EvolutionAgent.propose with a ChatCompleter (an API key is set)
\* ------------------------------------------------------------------------

\* the values json.loads reads; numbers and booleans carry their str() text
JNull == [kind |-> "null"]

JError == [kind |-> "error"]

JBool(t) == [kind |-> "bool", text |-> t]

JNum(t) == [kind |-> "number", text |-> t]

JStr(t) == [kind |-> "string", text |-> t]

JArr(items) == [kind |-> "array", items |-> items]

JObj(fields) == [kind |-> "object", fields |-> fields]

\* responses of the ChatCompleter: sentinel strings, prose, malformed JSON,
\* JSON that is no array, arrays without objects, arrays of suggestions
r_sentinel == "[dry-run:no-key]"

r_http == "[http-error 500] upstream"

r_prose == "Sorry, no ideas today."

r_malformed == "[{\"id\": \"x1\", "

r_object == "{\"id\": \"x1\"}"

r_nested == "{\"items\": [1, 2]}"

r_scalars == "[1, \"two\", null]"

r_empty == "[]"

r_late == "[1, 2, 3, {\"id\": \"x4\", \"filename\": \"A.md\"}]"

r_one == "Here you go:\n[{\"id\": \"x1\", \"filename\": \"A.md\", \"content\": \"hi\\nho\"}]\nDone."

r_mixed == "[1, {\"id\": \"x1\", \"filename\": \"A.md\"}]"

r_four == "[{\"id\": \"x1\", \"filename\": \"A.md\"}, {\"id\": \"x2\", \"filename\": \"B.md\"}, {\"id\": \"x3\", \"filename\": \"notes.txt\"}, {\"id\": \"x4\", \"filename\": \"C.md\"}]"

r_deny1 == "[{\"id\": \"x1\", \"filename\": \"run.py\"}, {\"id\": \"x2\", \"filename\": \"A.md\"}]"

r_deny2 == "[{\"id\": \"x1\", \"filename\": \"A.md\"}, {\"id\": \"x2\", \"filename\": \"run.py\"}, {\"id\": \"x3\", \"filename\": \"B.md\"}]"

r_deny3 == "[{\"id\": \"x1\", \"filename\": \"A.md\"}, {\"id\": \"x2\", \"filename\": \"B.md\"}, {\"id\": \"x3\", \"filename\": \"requirements.txt\"}]"

r_noid == "[{\"filename\": \"A.md\"}, {\"id\": 7}]"

\* an array followed by prose that ends with a bracketed word
r_two == "[{\"id\": \"x1\", \"filename\": \"A.md\"}] as in [docs]"

\* prose around an array one of whose strings holds a "]"
r_inner == "Idea: [{\"id\": \"x1\", \"content\": \"a]b\"}] end"

Responses ==
    { r_sentinel,
      r_http,
      r_prose,
      r_malformed,
      r_object,
      r_nested,
      r_scalars,
      r_empty,
      r_late,
      r_one,
      r_mixed,
      r_four,
      r_deny1,
      r_deny2,
      r_deny3,
      r_noid }

\* json.loads on the texts propose hands it (the outcome of the library
\* call on each, as Python gives it): the value read, JError for a text that
\* is no JSON document (ValueError)
JsonRead ==
    "[dry-run:no-key]" :> JError
    @@ "[http-error 500]" :> JError
    @@ "Sorry, no ideas today." :> JError
    @@ "[{\"id\": \"x1\"," :> JError
    @@ "{\"id\": \"x1\"}" :> JObj([id |-> JStr("x1")])
    @@ "[1, 2]" :> JArr(<<JNum("1"), JNum("2")>>)
    @@ "[1, \"two\", null]" :> JArr(<<JNum("1"), JStr("two"), JNull>>)
    @@ "[]" :> JArr(<<>>)
    @@ "[1, 2, 3, {\"id\": \"x4\", \"filename\": \"A.md\"}]" :> JArr(<<JNum("1"), JNum("2"), JNum("3"), JObj([id |-> JStr("x4"), filename |-> JStr("A.md")])>>)
    @@ "[{\"id\": \"x1\", \"filename\": \"A.md\", \"content\": \"hi\\nho\"}]" :> JArr(<<JObj([id |-> JStr("x1"), filename |-> JStr("A.md"), content |-> JStr("hi\nho")])>>)
    @@ "[1, {\"id\": \"x1\", \"filename\": \"A.md\"}]" :> JArr(<<JNum("1"), JObj([id |-> JStr("x1"), filename |-> JStr("A.md")])>>)
    @@ "[{\"id\": \"x1\", \"filename\": \"A.md\"}, {\"id\": \"x2\", \"filename\": \"B.md\"}, {\"id\": \"x3\", \"filename\": \"notes.txt\"}, {\"id\": \"x4\", \"filename\": \"C.md\"}]" :> JArr(<<JObj([id |-> JStr("x1"), filename |-> JStr("A.md")]), JObj([id |-> JStr("x2"), filename |-> JStr("B.md")]), JObj([id |-> JStr("x3"), filename |-> JStr("notes.txt")]), JObj([id |-> JStr("x4"), filename |-> JStr("C.md")])>>)
    @@ "[{\"id\": \"x1\", \"filename\": \"run.py\"}, {\"id\": \"x2\", \"filename\": \"A.md\"}]" :> JArr(<<JObj([id |-> JStr("x1"), filename |-> JStr("run.py")]), JObj([id |-> JStr("x2"), filename |-> JStr("A.md")])>>)
    @@ "[{\"id\": \"x1\", \"filename\": \"A.md\"}, {\"id\": \"x2\", \"filename\": \"run.py\"}, {\"id\": \"x3\", \"filename\": \"B.md\"}]" :> JArr(<<JObj([id |-> JStr("x1"), filename |-> JStr("A.md")]), JObj([id |-> JStr("x2"), filename |-> JStr("run.py")]), JObj([id |-> JStr("x3"), filename |-> JStr("B.md")])>>)
    @@ "[{\"id\": \"x1\", \"filename\": \"A.md\"}, {\"id\": \"x2\", \"filename\": \"B.md\"}, {\"id\": \"x3\", \"filename\": \"requirements.txt\"}]" :> JArr(<<JObj([id |-> JStr("x1"), filename |-> JStr("A.md")]), JObj([id |-> JStr("x2"), filename |-> JStr("B.md")]), JObj([id |-> JStr("x3"), filename |-> JStr("requirements.txt")])>>)
    @@ "[{\"filename\": \"A.md\"}, {\"id\": 7}]" :> JArr(<<JObj([filename |-> JStr("A.md")]), JObj([id |-> JNum("7")])>>)

    @@ "[{\"id\": \"x1\", \"filename\": \"A.md\"}] as in [docs]" :> JError
    @@ "[{\"id\": \"x1\", \"filename\": \"A.md\"}]" :> JArr(<<JObj([id |-> JStr("x1"), filename |-> JStr("A.md")])>>)
    @@ "[{\"id\": \"x1\", \"content\": \"a]" :> JError
    @@ "[{\"id\": \"x1\", \"content\": \"a]b\"}]" :> JArr(<<JObj([id |-> JStr("x1"), content |-> JStr("a]b")])>>)

json_loads(text) == JsonRead[text]

\* _extract_json_block: the stripped text when it starts with "[" and ends
\* with "]" or holds no "["; else the text from the first "[" to the "]"
\* that brings the bracket depth back to 0; the stripped text when none does
_extract_json_block(raw) ==
    LET txt    == strip(raw)
        opens  == {i \in 1..Len(txt) : Ch(txt, i) = "["}
        start  == CHOOSE i \in opens : \A j \in opens : i <= j
        level(i) == Cardinality({j \in start..i : Ch(txt, j) = "["})
        closed(i) == Cardinality({j \in start..i : Ch(txt, j) = "]"})
        closes == {i \in start..Len(txt) : Ch(txt, i) = "]" /\ level(i) = closed(i)}
        close  == CHOOSE i \in closes : \A j \in closes : i <= j
    IN  IF startswith(txt, "[") /\ endswith(txt, "]") THEN txt
        ELSE IF opens = {} THEN txt
        ELSE IF closes = {} THEN txt
        ELSE SubSeq(txt, start, close)

\* s[:n]
Prefix(s, n) == SubSeq(s, 1, Min(n, Len(s)))

\* str(value) of a value that is no array and no object
py_str(v) == IF v.kind = "null" THEN "None" ELSE v.text

\* str(raw_obj.get(key, default))
get_str(fields, key, default) ==
    IF key \in DOMAIN fields THEN py_str(fields[key]) ELSE default

\* the PatchProposal made of one element of the array; uuid stands for
\* uuid.uuid4().hex[:6]
suggestion(fields, uuid) ==
    LET filename == get_str(fields, "filename", "IMPROVEMENT.md")
        content  == get_str(fields, "content", "Placeholder")
        diff     == "--- a/" \o filename \o "\n+++ b/" \o filename \o "\n+"
                    \o join("\n+", splitlines(content)) \o "\n"
    IN  PatchProposal(Prefix(get_str(fields, "id", "p-" \o uuid), 24),
                      Prefix(get_str(fields, "description", ""), 400), diff)

\* the loop over data_list[:3]: an element that is no object is skipped
RECURSIVE suggestions(_, _)
suggestions(items, uuids) ==
    IF items = <<>> THEN <<>>
    ELSE (IF Head(items).kind = "object"
          THEN <<suggestion(Head(items).fields, Head(uuids))>>
          ELSE <<>>)
         \o suggestions(Tail(items), Tail(uuids))

\* propose with the parse left outside the try block
propose_client_unguarded(st, raw, uuids) ==
    LET parsed    == json_loads(_extract_json_block(raw))
        data_list == IF parsed.kind = "array" THEN parsed.items ELSE <<>>
        proposals == suggestions(Prefix(data_list, 3), uuids)
    IN  IF parsed.kind = "error" THEN [raised |-> TRUE, proposals |-> <<>>]
        ELSE [raised |-> FALSE,
              proposals |-> IF proposals = <<>> THEN _fallback_static(st.cycle) ELSE proposals]

\* EvolutionAgent.propose when the client has a key: raw is the text
\* chat_completion returned, uuids the three uuid4 draws at hand
propose_client(st, raw, uuids) ==
    LET parsed    == json_loads(_extract_json_block(raw))
        data_list == IF parsed.kind = "array" THEN parsed.items ELSE <<>>
        proposals == suggestions(Prefix(data_list, 3), uuids)
    IN  IF parsed.kind = "error"
        THEN [raised |-> FALSE, proposals |-> _fallback_static(st.cycle)]
        ELSE [raised |-> FALSE,
              proposals |-> IF proposals = <<>> THEN _fallback_static(st.cycle) ELSE proposals]

\* ------------------------------------------------------------------------
\* core/orchestrator.py: the diff parser and _reconstruct of
\* apply_after_approval
\* ------------------------------------------------------------------------

\* the segment loop: (filename, diff_lines) per "+++ b/" marker, the filename
\* stripped; "--- a/" and "@@" lines dropped; lines before the first marker
\* discarded
RECURSIVE parse_lines(_, _, _, _)
parse_lines(lines, has_file, current_file, current_lines) ==
    IF lines = <<>>
    THEN (IF has_file THEN <<[file |-> current_file, lines |-> current_lines]>> ELSE <<>>)
    ELSE LET line == Head(lines)
             rest == Tail(lines)
         IN  IF startswith(line, "+++ b/")
             THEN (IF has_file THEN <<[file |-> current_file, lines |-> current_lines]>> ELSE <<>>)
                  \o parse_lines(rest, TRUE, strip(SliceFrom(line, 6)), <<>>)
             ELSE IF startswith(line, "--- a/") \/ startswith(line, "@@")
             THEN parse_lines(rest, has_file, current_file, current_lines)
             ELSE IF has_file
             THEN parse_lines(rest, has_file, current_file, Append(current_lines, line))
             ELSE parse_lines(rest, has_file, current_file, current_lines)

\* a parser that has a segment open before the first marker
segments_of_open(diff) == parse_lines(splitlines(diff), TRUE, "", <<>>)

segments_of(diff) == parse_lines(splitlines(diff), FALSE, "", <<>>)

segment_files(segments) == [i \in 1..Len(segments) |-> segments[i].file]

RECURSIVE kept_lines(_)
kept_lines(lines) ==
    IF lines = <<>> THEN <<>>
    ELSE LET ln == Head(lines)
         IN  (IF startswith(ln, "+") /\ ~startswith(ln, "+++") THEN <<SliceFrom(ln, 1)>>
              ELSE IF startswith(ln, "-") THEN <<>>
              ELSE <<ln>>)
             \o kept_lines(Tail(lines))

_reconstruct(lines) ==
    LET new_lines == kept_lines(lines)
    IN  strip(join("\n", [i \in 1..Len(new_lines) |-> rstrip(new_lines[i])])) \o "\n"

\* the falsy path of a backup record whose file did not exist (None)
NoPath == ""

\* a backup path that leaves the proposal out
backup_path_shared(fname, id) == ".backup_" \o replace_slash(fname) \o ".txt"

backup_path_of(fname, id) == ".backup_" \o replace_slash(fname) \o "_" \o id \o ".txt"

\* the loop over the segments (orchestrator.py 110-134) from segment i on.
\* acc: tree, proposal_backups, applied_files, vlog (version_history.jsonl),
\* raised (an exception left the loop)
RECURSIVE apply_segments(_, _, _, _, _, _)
apply_segments(segments, i, id, dry_run, cycle, acc) ==
    IF i > Len(segments) \/ acc.raised THEN acc
    ELSE LET fname == segments[i].file
             \* target.exists(); read_text of a directory raises
             there  == exists(acc.tree, fname)
             isdir  == there /\ ~is_file(acc.tree, fname)
             original == IF there /\ ~isdir THEN read_text(acc.tree[fname]) ELSE ""
             bpath  == backup_path_of(fname, id)
             \* backup_path.write_text in try/except: a failure is ignored
             tree1  == IF there /\ ~isdir THEN write_text(acc.tree, bpath, original).tree ELSE acc.tree
             rec    == IF there
                       THEN [file |-> fname, path |-> bpath, original_exists |-> TRUE]
                       ELSE [file |-> fname, path |-> NoPath, original_exists |-> FALSE]
             new_content == _reconstruct(segments[i].lines)
             wr     == apply_patch(tree1, fname, new_content)
             \* version_log_path.open('a') in try/except: a failure is ignored
             vf     == append_line(wr.tree, VERSION_LOG)
         IN  IF isdir THEN [acc EXCEPT !.raised = TRUE]
             ELSE IF dry_run
             THEN apply_segments(segments, i + 1, id, dry_run, cycle,
                      [acc EXCEPT !.tree = tree1, !.proposal_backups = Append(@, rec)])
             ELSE IF wr.raised
             THEN [acc EXCEPT !.tree = tree1, !.proposal_backups = Append(@, rec), !.raised = TRUE]
             ELSE apply_segments(segments, i + 1, id, dry_run, cycle,
                      [acc EXCEPT !.tree = vf.tree,
                                  !.proposal_backups = Append(@, rec),
                                  !.applied_files = Append(@, fname),
                                  !.vlog = IF vf.raised THEN @
                                           ELSE Append(@, [proposal |-> id, file |-> fname,
                                                           sha |-> new_content, cycle |-> cycle])])

\* logging_utils.lightweight_changelog
lightweight_changelog(tree, message) ==
    LET old == IF is_file(tree, "CHANGELOG.md") THEN tree["CHANGELOG.md"] ELSE "# Changelog\n\n"
    IN  IF is_dir(tree, "CHANGELOG.md")
        THEN [raised |-> TRUE, tree |-> tree]
        ELSE [raised |-> FALSE, tree |-> put(tree, "CHANGELOG.md", old \o "- " \o message \o "\n")]

\* the loop of undo_last over the backup records (orchestrator.py 155-172);
\* every failure inside it is swallowed
RECURSIVE undo_records(_, _, _)
undo_records(tree, bkp_list, i) ==
    IF i > Len(bkp_list) THEN tree
    ELSE LET info == bkp_list[i]
             t1 == IF info.original_exists /\ info.path # NoPath
                   THEN (IF is_file(tree, info.path)
                         THEN apply_patch(tree, info.file, read_text(tree[info.path])).tree
                         ELSE tree)
                   ELSE (IF info.file # "" /\ is_file(tree, info.file)
                         THEN unlink(tree, info.file)
                         ELSE tree)
         IN  undo_records(t1, bkp_list, i + 1)

\* ------------------------------------------------------------------------
\* The state of one Orchestrator on one repository root
\* ------------------------------------------------------------------------

VARIABLES
    fs,           \* the regular files under repo_root: path -> content
    pending,      \* approvals.pending
    state,        \* the WorldState held in memory
    state_file,   \* the WorldState last written to .evo_state.json
    version_log,  \* the records of logs/version_history.jsonl
    evo_log,      \* the records of logs/evo_log.jsonl (JsonLogger)
    result,       \* the last call: operation, arguments, outcome
    generated,    \* history: the last propose: response, counter, list returned
    run,          \* history: the applies and undos since the last other call
    calls,        \* history: the number of calls made so far
    twin,         \* core/twin.py: the directories made, the baseline hash
                  \* map, the sandbox orchestrator's files, meta.json
    race,         \* two apply_after_approval calls running concurrently
    asked,        \* history: the arguments of the last TwinCoordinator call, and
                  \* the allow-listed main files each snapshot was taken of
    rl,           \* api/app.py: the rate limiter's globals, the callers inside
                  \* _rate_limit_allow, the clock
    sim           \* sim/world.py: STATE, and the tick call in progress

vars == <<fs, pending, state, state_file, version_log, evo_log, result, generated, run, calls,
          twin, race, asked, rl, sim>>

\* bounds of the exploration: calls per behaviour, proposals a caller
\* leaves pending, targets of a generated diff
MaxCalls == 6
MaxGateCalls == 3
MaxClientCalls == 3
MaxPending == 2
MaxTargets == 3

\* files a repository may hold when the Orchestrator is constructed
InitialTrees ==
    { <<>>,
      [f \in {"A.md", "README.md"} |-> IF f = "A.md" THEN "alt\n" ELSE "readme\n"],
      [f \in {"a/b.md", "a_b.md"} |-> IF f = "a/b.md" THEN "one\n" ELSE "two\n"],
      [f \in {"A.md"} |-> "alt\r\n"] }

\* proposals a caller submits to the gate directly, as
\* tests/test_versions_and_help.py does
InjectedProposals ==
    { PatchProposal("pMF", "test",
          "--- a/A.md\n+++ b/A.md\n@@\n-alt\n+neu1\n--- a/B.md\n+++ b/B.md\n@@\n-alt\n+neu2\n"),
      PatchProposal("pCol", "test",
          "--- a/a/b.md\n+++ b/a/b.md\n+x\n--- a/a_b.md\n+++ b/a_b.md\n+y\n"),
      PatchProposal("pDeny", "test",
          "--- a/A.md\n+++ b/A.md\n+x\n--- a/requirements.txt\n+++ b/requirements.txt\n+evil\n"),
      PatchProposal("pSp", "test",
          "--- a/requirements.txt\n+++ b/ requirements.txt\n+evil\n"),
      PatchProposal("pSec", "test",
          "--- a/A.md\n+++ b/A.md\n+run: RM -RF /\n"),
      PatchProposal("pDir", "test",
          "--- a/B.md\n+++ b/B.md\n+x\n--- a/A.md/x.md\n+++ b/A.md/x.md\n+y\n"),
      PatchProposal("pNone", "test", "no file header here\n"),
      PatchProposal("pNoneSec", "test", "cleanup: rm -rf build\n"),
      PatchProposal("pMF", "second proposal under an id already used", "--- a/C.md\n+++ b/C.md\n+z\n") }

\* proposals the policy admits that name a path below one of the
\* orchestrator's own files
OwnFileProposals ==
    { PatchProposal("pState", "test",
          "--- a/.evo_state.json/x.md\n+++ b/.evo_state.json/x.md\n+x\n"),
      PatchProposal("pLog", "test",
          "--- a/logs/evo_log.jsonl/x.md\n+++ b/logs/evo_log.jsonl/x.md\n+x\n"),
      PatchProposal("pVer", "test",
          "--- a/B.md\n+++ b/B.md\n+x\n--- a/logs/version_history.jsonl/x.md\n+++ b/logs/version_history.jsonl/x.md\n+y\n--- a/C.md\n+++ b/C.md\n+z\n"),
      PatchProposal("pVerFirst", "test",
          "--- a/logs/version_history.jsonl/x.md\n+++ b/logs/version_history.jsonl/x.md\n+y\n--- a/C.md\n+++ b/C.md\n+z\n") }

NoFiles == <<>>

Result(op, id, dry_run, outcome, proposal, files) ==
    [op |-> op, id |-> id, dry_run |-> dry_run, outcome |-> outcome,
     proposal |-> proposal, files |-> files]

NoneGenerated == [raw |-> "", cycle |-> 0, raised |-> FALSE, proposals |-> <<>>]

NoRun == [active |-> FALSE, base |-> <<>>, applies |-> 0, undos |-> 0,
          touched |-> {}, empty_start |-> FALSE, distinct_files |-> FALSE]

\* dict assignment and dict.pop(key, None) on state.backups
dict_set(d, k, v) == [x \in DOMAIN d \cup {k} |-> IF x = k THEN v ELSE d[x]]

dict_pop(d, k) == [x \in DOMAIN d \ {k} |-> d[x]]

Range(seq) == {seq[i] : i \in 1..Len(seq)}

\* a _save_state that writes nothing
_save_state_skipped(tree, sf, st) == [tree |-> tree, state_file |-> sf]

\* _save_state: json.dumps(self.state.__dict__) written to the state file;
\* a failing write is ignored
_save_state(tree, sf, st) ==
    LET w == write_text(tree, STATE_FILE, Kept)
    IN  IF w.raised THEN [tree |-> tree, state_file |-> sf]
        ELSE [tree |-> w.tree, state_file |-> [exists |-> TRUE, content |-> st]]

\* _load_state: the WorldState of the state file, the default one when the
\* file is missing or cannot be read as a WorldState
DefaultState ==
    [objectives |-> <<"Improve onboarding documentation.">>,
     accepted_patches |-> <<>>, cycle |-> 0, backups |-> <<>>]

\* a constructor that starts from the default state whatever the file holds
_load_state_default(tree, sf) == DefaultState

_load_state(tree, sf) ==
    IF is_file(tree, STATE_FILE) /\ tree[STATE_FILE] = Kept /\ sf.exists
    THEN sf.content
    ELSE DefaultState

\* JsonLogger.write: one record appended to logs/evo_log.jsonl
logger_write(tree, elog, record) ==
    LET w == append_line(tree, EVO_LOG)
    IN  [raised |-> w.raised, tree |-> w.tree,
         log |-> IF w.raised THEN elog ELSE Append(elog, record)]

\* no TwinCoordinator and no SnapshotManager was constructed: .twin does not
\* exist
NoTwin ==
    [dirs |-> {}, baseline |-> <<>>,
     sandbox_state_file |-> [exists |-> FALSE, content |-> DefaultState],
     sandbox_evo_log |-> <<>>, meta |-> <<>>, snap_state |-> <<>>]

\* no apply_after_approval call is in progress
NoRace == [active |-> FALSE, base |-> <<>>, overlapped |-> FALSE, th |-> <<>>]

\* the files argument of promote: None, or a list of names
NoneFiles == [given |-> FALSE, names |-> {}]

ListOf(names) == [given |-> TRUE, names |-> names]

\* no TwinCoordinator call was made
NotAsked == [files |-> NoneFiles, cycles |-> 0, taken |-> <<>>]

\* the API module was not imported: no rate limiter
NoLimiter == [active |-> FALSE]

\* sim/world.py was not imported: no STATE
NoSim == [active |-> FALSE]

\* A fresh Orchestrator on a repository without a state file
Init ==
    /\ fs \in InitialTrees
    /\ pending = <<>>
    /\ state_file = [exists |-> FALSE, content |-> DefaultState]
    /\ state = _load_state(fs, state_file)
    /\ version_log = <<>>
    /\ evo_log = <<>>
    /\ result = Result("init", "", FALSE, "ok", NoProposal, NoFiles)
    /\ generated = NoneGenerated
    /\ run = NoRun
    /\ calls = 0
    /\ twin = NoTwin
    /\ race = NoRace
    /\ asked = NotAsked
    /\ rl = NoLimiter
    /\ sim = NoSim

\* EvolutionAgent.propose without an API key: notes "[no-key]" in
\* logs/groq_raw_last.txt (failures ignored) and returns the canned list
\* a generator that ignores the counter and always answers as at counter 0
propose_ignoring_counter(st) == [raised |-> FALSE, proposals |-> _fallback_static(0)]

propose(st) == [raised |-> FALSE, proposals |-> _fallback_static(st.cycle)]

propose_note(tree) == apply_patch(tree, "logs/groq_raw_last.txt", "[no-key]").tree

\* with a key the raw response is noted there instead
propose_note_raw(tree, raw) == apply_patch(tree, "logs/groq_raw_last.txt", raw).tree

\* a loop that drops a rejected proposal and goes on with the next
RECURSIVE submit_all_skip_rejected(_, _)
submit_all_skip_rejected(todo, acc) ==
    IF todo = <<>> THEN acc
    ELSE LET p == [Head(todo) EXCEPT !.score = score(Head(todo))]
             sub == submit(acc.pending, p)
         IN  IF sub.raised THEN submit_all_skip_rejected(Tail(todo), acc)
             ELSE submit_all_skip_rejected(Tail(todo),
                      [acc EXCEPT !.pending = sub.pending, !.scored = Append(@, p)])

\* the loop of cycle(): score, submit, collect; a PolicyViolation leaves it
RECURSIVE submit_all(_, _)
submit_all(todo, acc) ==
    IF todo = <<>> \/ acc.raised THEN acc
    ELSE LET p == [Head(todo) EXCEPT !.score = score(Head(todo))]
             sub == submit(acc.pending, p)
         IN  IF sub.raised THEN [acc EXCEPT !.raised = TRUE]
             ELSE submit_all(Tail(todo),
                      [acc EXCEPT !.pending = sub.pending, !.scored = Append(@, p)])

\* ------------------------------------------------------------------------
\* Operations
\* ------------------------------------------------------------------------

\* Orchestrator.cycle(dry_run), dry_run is not read by the code: the
\* proposals are scored and submitted; a PolicyViolation leaves the call
\* there; then the counter, the state file and the audit record, whose write
\* is not guarded
CycleWith(raw, proposed, noted) ==
    /\ calls' = calls + 1
    /\ generated' = [raw |-> raw, cycle |-> state.cycle, raised |-> proposed.raised,
                     proposals |-> proposed.proposals]
    /\ LET proposals == proposed.proposals
           r == IF proposed.raised
                THEN [pending |-> pending, scored |-> <<>>, raised |-> TRUE]
                ELSE submit_all(proposals, [pending |-> pending, scored |-> <<>>, raised |-> FALSE])
           ids == [i \in 1..Len(r.scored) |-> r.scored[i].id]
           st1 == [state EXCEPT !.cycle = @ + 1]
           saved == _save_state(noted, state_file, st1)
           logged == logger_write(saved.tree, evo_log,
                         [event |-> "cycle", cycle |-> st1.cycle, id |-> "", names |-> ids])
       IN  /\ pending' = r.pending
           /\ IF r.raised
              THEN /\ fs' = noted
                   /\ UNCHANGED <<state, state_file, evo_log>>
                   /\ result' = Result("cycle", "", FALSE,
                                       IF proposed.raised THEN "ProposeError" ELSE "PolicyViolation",
                                       NoProposal, ids)
              ELSE /\ state' = st1
                   /\ state_file' = saved.state_file
                   /\ fs' = logged.tree
                   /\ evo_log' = logged.log
                   /\ result' = Result("cycle", "", FALSE,
                                       IF logged.raised THEN "LogError" ELSE "ok", NoProposal, ids)
    /\ run' = NoRun
    /\ UNCHANGED <<version_log, twin, race, asked, rl, sim>>

\* cycle() of an Orchestrator without an API key
Cycle == CycleWith("", propose(state), propose_note(fs))

\* cycle() of an Orchestrator whose client has a key and answers raw
CycleClient(raw, uuids) ==
    CycleWith(raw, propose_client(state, raw, uuids), propose_note_raw(fs, raw))

\* ApprovalGate.submit(proposal) called by an outside caller
Submit(proposal) ==
    /\ calls' = calls + 1
    /\ UNCHANGED <<generated, twin, race, asked, rl, sim>>
    /\ LET r == submit(pending, proposal)
       IN  /\ pending' = r.pending
           /\ result' = Result("submit", proposal.id, FALSE,
                               IF r.raised THEN "PolicyViolation" ELSE "ok", proposal, NoFiles)
    /\ run' = NoRun
    /\ UNCHANGED <<fs, state, state_file, version_log, evo_log>>

\* Orchestrator.approve(proposal_id)
Approve(id) ==
    /\ calls' = calls + 1
    /\ UNCHANGED <<generated, twin, race, asked, rl, sim>>
    /\ LET a == approve(pending, id)
       IN  /\ pending' = a.pending
           /\ result' = Result("approve", id, FALSE,
                               IF a.raised THEN "NotFound" ELSE "ok", a.proposal, NoFiles)
    /\ run' = NoRun
    /\ UNCHANGED <<fs, state, state_file, version_log, evo_log>>

\* Orchestrator.apply_after_approval(proposal_id, dry_run)
Apply(id, dry_run) ==
    /\ calls' = calls + 1
    /\ UNCHANGED <<generated, twin, race, asked, rl, sim>>
    /\ LET a        == approve(pending, id)
           proposal == a.proposal
           segments == segments_of(proposal.diff)
           pushed   == IF dry_run THEN state.accepted_patches
                       ELSE Append(state.accepted_patches, proposal.id)
           acc      == apply_segments(segments, 1, proposal.id, dry_run, state.cycle,
                           [tree |-> fs, proposal_backups |-> <<>>, applied_files |-> <<>>,
                            vlog |-> version_log, raised |-> FALSE])
           message  == "Applied " \o proposal.id \o " -> " \o comma_join(acc.applied_files)
           st1      == [state EXCEPT !.accepted_patches = pushed,
                                     !.backups = dict_set(@, proposal.id, acc.proposal_backups)]
           chg      == IF acc.applied_files # <<>>
                       THEN lightweight_changelog(acc.tree, message)
                       ELSE [raised |-> FALSE, tree |-> acc.tree]
           logged   == logger_write(chg.tree, evo_log,
                           [event |-> "apply", cycle |-> state.cycle,
                            id |-> proposal.id, names |-> acc.applied_files])
           saved    == _save_state(logged.tree, state_file, st1)
       IN  IF a.raised
           THEN /\ result' = Result("apply", id, dry_run, "NotFound", NoProposal, NoFiles)
                /\ run' = NoRun
                /\ UNCHANGED <<fs, pending, state, state_file, version_log, evo_log>>
           ELSE IF ~validate_diff_security(proposal.diff)
           THEN /\ pending' = a.pending
                /\ result' = Result("apply", id, dry_run, "SecurityViolation", proposal, NoFiles)
                /\ run' = NoRun
                /\ UNCHANGED <<fs, state, state_file, version_log, evo_log>>
           ELSE IF segments = <<>>
           THEN /\ pending' = a.pending
                /\ result' = Result("apply", id, dry_run, "nothing", proposal, NoFiles)
                /\ run' = NoRun
                /\ UNCHANGED <<fs, state, state_file, version_log, evo_log>>
           ELSE IF acc.raised
           THEN /\ pending' = a.pending
                /\ fs' = acc.tree
                /\ version_log' = acc.vlog
                /\ state' = [state EXCEPT !.accepted_patches = pushed]
                /\ result' = Result("apply", id, dry_run, "IOError", proposal, acc.applied_files)
                /\ run' = NoRun
                /\ UNCHANGED <<state_file, evo_log>>
           ELSE IF dry_run
           THEN /\ pending' = a.pending
                /\ fs' = acc.tree
                /\ result' = Result("apply", id, dry_run, "dry-run", proposal, segment_files(segments))
                /\ run' = NoRun
                /\ UNCHANGED <<state, state_file, version_log, evo_log>>
           ELSE IF chg.raised \/ logged.raised
           THEN \* the changelog or the audit record cannot be appended: the
                \* exception leaves the call before _save_state
                /\ pending' = a.pending
                /\ state' = st1
                /\ fs' = chg.tree
                /\ version_log' = acc.vlog
                /\ result' = Result("apply", id, dry_run, "LogError", proposal, acc.applied_files)
                /\ run' = NoRun
                /\ UNCHANGED <<state_file, evo_log>>
           ELSE /\ pending' = a.pending
                /\ state' = st1
                /\ fs' = saved.tree
                /\ version_log' = acc.vlog
                /\ evo_log' = logged.log
                /\ state_file' = saved.state_file
                /\ result' = Result("apply", id, dry_run, "applied", proposal, acc.applied_files)
                /\ run' = IF run.active /\ run.undos = 0
                          THEN [run EXCEPT !.applies = @ + 1,
                                           !.touched = @ \cup Range(acc.applied_files),
                                           !.distinct_files = FALSE]
                          ELSE [active |-> TRUE, base |-> fs, applies |-> 1, undos |-> 0,
                                touched |-> Range(acc.applied_files),
                                empty_start |-> state.accepted_patches = <<>> /\ DOMAIN state.backups = {},
                                distinct_files |-> Cardinality(Range(segment_files(segments))) = Len(segments)]

\* Orchestrator.undo_last()
UndoLast ==
    /\ calls' = calls + 1
    /\ UNCHANGED <<generated, twin, race, asked, rl, sim>>
    /\ IF state.accepted_patches = <<>>
       THEN /\ result' = Result("undo", "", FALSE, "None", NoProposal, NoFiles)
            /\ run' = NoRun
            /\ UNCHANGED <<fs, state, state_file, evo_log>>
       ELSE LET n        == Len(state.accepted_patches)
                last     == state.accepted_patches[n]
                bkp_list == IF last \in DOMAIN state.backups THEN state.backups[last] ELSE <<>>
                st1      == [state EXCEPT !.accepted_patches = SubSeq(@, 1, n - 1),
                                         !.backups = dict_pop(@, last)]
                saved    == _save_state(undo_records(fs, bkp_list, 1), state_file, st1)
                logged   == logger_write(saved.tree, evo_log,
                                [event |-> "undo", cycle |-> state.cycle,
                                 id |-> last, names |-> NoFiles])
            IN  /\ fs' = logged.tree
                /\ state' = st1
                /\ state_file' = saved.state_file
                /\ evo_log' = logged.log
                /\ result' = Result("undo", last, FALSE,
                                    IF logged.raised THEN "LogError" ELSE "undone",
                                    NoProposal, NoFiles)
                /\ run' = IF run.active /\ run.undos < run.applies
                          THEN [run EXCEPT !.undos = @ + 1]
                          ELSE NoRun
    /\ UNCHANGED <<pending, version_log>>

\* Orchestrator.list_pending(): a copy of approvals.pending
ListPending ==
    /\ calls' = calls + 1
    /\ UNCHANGED <<generated, twin, race, asked, rl, sim>>
    /\ result' = Result("list_pending", "", FALSE, "ok", NoProposal,
                        [i \in 1..Len(pending) |-> pending[i].id])
    /\ run' = NoRun
    /\ UNCHANGED <<fs, pending, state, state_file, version_log, evo_log>>

\* Orchestrator.preview(proposal_id): the diff of the first pending proposal
\* with that id, ValueError when none is pending
Preview(id) ==
    /\ calls' = calls + 1
    /\ UNCHANGED <<generated, twin, race, asked, rl, sim>>
    /\ result' = IF HasId(pending, id)
                 THEN Result("preview", id, FALSE, "ok", pending[FirstIndex(pending, id)], NoFiles)
                 ELSE Result("preview", id, FALSE, "NotFound", NoProposal, NoFiles)
    /\ run' = NoRun
    /\ UNCHANGED <<fs, pending, state, state_file, version_log, evo_log>>

\* ------------------------------------------------------------------------
\* core/twin.py: the files a snapshot or the sandbox holds
\* ------------------------------------------------------------------------

ALLOWED_EXT == {".py", ".md", ".txt", ".json", ".yml", ".yaml"}

IGNORE_DIRS == {".git", ".venv", "__pycache__", "logs", ".twin"}

TWIN_DIR == ".twin"

SANDBOX_DIR == ".twin/sandbox"

SNAP_DIR == ".twin/snapshots"

META_FILE == ".twin/meta.json"

BASELINE_NAME == ".baseline_hashes.json"

\* base / rel
join_path(base, rel) == IF base = "" THEN rel ELSE base \o "/" \o rel

\* the positions of "/" in p
slashes_of(p) == {i \in 1..Len(p) : Ch(p, i) = "/"}

\* Path.parts of a relative path, as a set
parts(p) ==
    LET cut == {0, Len(p) + 1} \cup slashes_of(p)
    IN  {SubSeq(p, c[1] + 1, c[2] - 1) :
            c \in {d \in cut \X cut : d[1] < d[2] /\ ~ \E m \in cut : d[1] < m /\ m < d[2]}}

\* Path.name
basename(p) ==
    IF slashes_of(p) = {} THEN p
    ELSE SliceFrom(p, CHOOSE i \in slashes_of(p) : \A j \in slashes_of(p) : j <= i)

\* Path.suffix: from the last dot of the name on, unless that dot is the
\* first or the last character of the name
suffix(p) ==
    LET name == basename(p)
        dots == {i \in 1..Len(name) : Ch(name, i) = "."}
        last == CHOOSE i \in dots : \A j \in dots : j <= i
    IN  IF dots = {} THEN ""
        ELSE IF 1 < last /\ last < Len(name) THEN SubSeq(name, last, Len(name))
        ELSE ""

\* the directories above p, the root left out
ancestors(p) == {SubSeq(p, 1, i - 1) : i \in slashes_of(p)}

\* the paths, relative to base, of the regular files below base
files_below(tree, base) ==
    IF base = "" THEN DOMAIN tree
    ELSE {SliceFrom(q, Len(base) + 1) : q \in {r \in DOMAIN tree : startswith(r, base \o "/")}}

\* _iter_files(base): the regular files below base with an allowed suffix
\* and no ignored name among their parts, as paths relative to base
_iter_files(tree, base) ==
    {rel \in files_below(tree, base) :
        parts(rel) \cap IGNORE_DIRS = {} /\ suffix(rel) \in ALLOWED_EXT}

\* the orders in which rglob may yield a set of files
Orders(rels) ==
    {order \in [1..Cardinality(rels) -> rels] : \A i, j \in 1..Cardinality(rels) : order[i] = order[j] => i = j}

\* the characters of the modelled paths in code point order
CodePoints == " ()-./0123456789ABCDEFGHIJKLMNOPQRSTUVWXYZ_abcdefghijklmnopqrstuvwxyz"

code_point(c) == CHOOSE i \in 1..Len(CodePoints) : Ch(CodePoints, i) = c

\* a < b for str
str_less(a, b) ==
    \E i \in 1..(Len(a) + 1) :
        /\ i <= Len(b)
        /\ SubSeq(a, 1, i - 1) = SubSeq(b, 1, i - 1)
        /\ (i > Len(a) \/ code_point(Ch(a, i)) < code_point(Ch(b, i)))

\* sorted(names) for names without duplicates
sorted(names) ==
    [k \in 1..Cardinality(names) |->
        CHOOSE x \in names : Cardinality({y \in names : str_less(y, x)}) = k - 1]

\* the directories that exist: those above a file and those made by mkdir
all_dirs(tree, dirs) == dirs \cup UNION {ancestors(q) : q \in DOMAIN tree}

dir_exists(tree, dirs, p) == is_dir(tree, p) \/ p \in dirs

\* Path.mkdir(parents=True, exist_ok=True): FileExistsError when the path or
\* one of its parents is a regular file
mkdir_parents(tree, dirs, p) ==
    IF is_file(tree, p) \/ ancestor_is_file(tree, p)
    THEN [raised |-> TRUE, dirs |-> dirs]
    ELSE [raised |-> FALSE, dirs |-> dirs \cup ((ancestors(p) \cup {p}) \ {""})]

\* shutil.copy2(src, dst): into dst when dst is a directory, over dst
\* otherwise; the bytes are copied as they are
copy2(tree, dirs, src, dst) ==
    LET target == IF dir_exists(tree, dirs, dst) THEN join_path(dst, basename(src)) ELSE dst
    IN  IF ~is_file(tree, src) \/ dir_exists(tree, dirs, target) \/ ancestor_is_file(tree, target)
        THEN [raised |-> TRUE, tree |-> tree]
        ELSE [raised |-> FALSE, tree |-> put(tree, target, tree[src])]

\* F applied to the value of v, with v worked out once
With(v, F(_)) == CHOOSE y \in {F(x) : x \in {v}} : TRUE

\* the loop of create, restore and init_sandbox over the files rglob yields,
\* from file i of order on: mkdir of the target's parent (an exception
\* leaves the loop), copy2 in try/except
RECURSIVE copy_loop(_, _, _, _, _)
copy_loop(src_base, dst_base, order, i, acc) ==
    IF i > Len(order) \/ acc.raised THEN acc
    ELSE LET rel == order[i]
             target == join_path(dst_base, rel)
         IN  With(mkdir_parents(acc.tree, acc.dirs, dirname(target)), LAMBDA made :
                 IF made.raised THEN [acc EXCEPT !.raised = TRUE]
                 ELSE With([acc EXCEPT !.tree = copy2(acc.tree, made.dirs,
                                                      join_path(src_base, rel), target).tree,
                                       !.dirs = made.dirs],
                           LAMBDA next : copy_loop(src_base, dst_base, order, i + 1, next)))

\* the files below base as a tree of paths relative to base, and that tree
\* put back below base in place of what was there
subtree(tree, base) ==
    [rel \in files_below(tree, base) |-> tree[join_path(base, rel)]]

graft(tree, base, sub) ==
    [q \in {r \in DOMAIN tree : ~startswith(r, base \o "/")}
           \cup {join_path(base, rel) : rel \in DOMAIN sub}
        |-> IF startswith(q, base \o "/") THEN sub[SliceFrom(q, Len(base) + 1)] ELSE tree[q]]

\* shutil.rmtree(base, ignore_errors=True)
rmtree(tree, base) == [q \in {r \in DOMAIN tree : ~startswith(r, base \o "/")} |-> tree[q]]

rmtree_dirs(dirs, base) == {d \in dirs : d # base /\ ~startswith(d, base \o "/")}

\* _hash_file: the SHA-256 of the bytes, taken as collision-free
_hash_file(bytes) == "sha256:" \o bytes

\* the bytes of a sandbox file: the sandbox orchestrator's state file holds
\* the JSON text of twin.sandbox_state_file
sandbox_bytes(tree, tw, rel) ==
    IF rel = STATE_FILE /\ tree[join_path(SANDBOX_DIR, rel)] = Kept
    THEN ToString(tw.sandbox_state_file.content)
    ELSE tree[join_path(SANDBOX_DIR, rel)]

\* what the twin operations work on: the files and directories under
\* repo_root, the twin record, and the main orchestrator's state file
World(tree, tw, sf) == [tree |-> tree, tw |-> tw, state_file |-> sf, raised |-> FALSE]

\* an init_sandbox that builds the sandbox anew on every call
init_sandbox_always(w, force, order) ==
    With([w EXCEPT !.tree = rmtree(@, SANDBOX_DIR),
                   !.tw.dirs = rmtree_dirs(@, SANDBOX_DIR) \cup {TWIN_DIR, SANDBOX_DIR}],
         LAMBDA cleared :
    With(copy_loop("", SANDBOX_DIR, order, 1,
             [tree |-> cleared.tree, dirs |-> cleared.tw.dirs, raised |-> FALSE]),
         LAMBDA copied :
    With([rel \in _iter_files(copied.tree, SANDBOX_DIR) |->
             _hash_file(copied.tree[join_path(SANDBOX_DIR, rel)])],
         LAMBDA hashes :
             [w EXCEPT !.tree = put(copied.tree, join_path(SANDBOX_DIR, BASELINE_NAME),
                                    ToString(hashes)),
                       !.tw.dirs = copied.dirs,
                       !.tw.baseline = hashes])))

\* TwinCoordinator.init_sandbox(force); order is the order in which rglob
\* yields the files of the main tree
init_sandbox(w, force, order) ==
    IF dir_exists(w.tree, w.tw.dirs, SANDBOX_DIR) /\ ~force THEN w
    ELSE \* rmtree when the sandbox exists, then mkdir(parents=True)
         With([w EXCEPT !.tree = rmtree(@, SANDBOX_DIR),
                        !.tw.dirs = rmtree_dirs(@, SANDBOX_DIR) \cup {TWIN_DIR, SANDBOX_DIR},
                        !.tw.sandbox_state_file =
                            IF is_file(w.tree, STATE_FILE) /\ STATE_FILE \in Range(order)
                            THEN w.state_file
                            ELSE [exists |-> FALSE, content |-> DefaultState],
                        !.tw.sandbox_evo_log = <<>>],
              LAMBDA cleared :
         With(copy_loop("", SANDBOX_DIR, order, 1,
                  [tree |-> cleared.tree, dirs |-> cleared.tw.dirs, raised |-> FALSE]),
              LAMBDA copied :
         With([rel \in _iter_files(copied.tree, SANDBOX_DIR) |->
                  _hash_file(sandbox_bytes(copied.tree, cleared.tw, rel))],
              LAMBDA hashes :
                  [cleared EXCEPT !.tree = put(copied.tree, join_path(SANDBOX_DIR, BASELINE_NAME),
                                               ToString(hashes)),
                                  !.tw.dirs = copied.dirs,
                                  !.tw.baseline = hashes])))

\* _load_baseline: the map of .baseline_hashes.json, {} when the file is
\* missing or does not hold a map
_load_baseline(tree, tw) ==
    IF is_file(tree, join_path(SANDBOX_DIR, BASELINE_NAME))
       /\ tree[join_path(SANDBOX_DIR, BASELINE_NAME)] = ToString(tw.baseline)
    THEN tw.baseline
    ELSE <<>>

\* the loop of diff_changed_files: the sandbox files the baseline does not
\* know or knows with another hash
changed(tree, tw) ==
    With(_load_baseline(tree, tw), LAMBDA baseline :
        {rel \in _iter_files(tree, SANDBOX_DIR) :
            rel \notin DOMAIN baseline
            \/ baseline[rel] # _hash_file(sandbox_bytes(tree, tw, rel))})

\* TwinCoordinator.diff_changed_files()
diff_changed_files(w, order) ==
    With(init_sandbox(w, FALSE, order), LAMBDA w1 :
        [w |-> w1, changed |-> sorted(changed(w1.tree, w1.tw))])

\* promote, lines 199-202: "if files:" is false for None and for []
select(changed_files, files) ==
    IF files.given /\ files.names # {}
    THEN SelectSeq(changed_files, LAMBDA f : f \in files.names)
    ELSE changed_files

\* the loop of promote (204-213) from entry i of selected on: mkdir of the
\* parent in the main tree (an exception leaves the loop), copy2 unless
\* dry_run (a failing copy skips the entry), the entry reported
RECURSIVE promote_loop(_, _, _, _)
promote_loop(selected, i, dry_run, acc) ==
    IF i > Len(selected) \/ acc.raised THEN acc
    ELSE LET rel == selected[i]
         IN  With(mkdir_parents(acc.tree, acc.dirs, dirname(rel)), LAMBDA made :
             With(copy2(acc.tree, made.dirs, join_path(SANDBOX_DIR, rel), rel), LAMBDA cp :
                 IF made.raised THEN [acc EXCEPT !.raised = TRUE]
                 ELSE With(IF dry_run
                           THEN [acc EXCEPT !.dirs = made.dirs,
                                            !.promoted = Append(@, rel \o " (dry)")]
                           ELSE IF cp.raised
                           THEN [acc EXCEPT !.dirs = made.dirs]
                           ELSE [acc EXCEPT !.tree = cp.tree, !.dirs = made.dirs,
                                            !.promoted = Append(@, rel),
                                            !.copied = @ \cup {rel}],
                           LAMBDA next : promote_loop(selected, i + 1, dry_run, next))))

\* TwinCoordinator.promote(files, dry_run): the world after it, the list
\* returned; a promoted state file carries the sandbox orchestrator's state
promote(w, files, dry_run, order) ==
    With(diff_changed_files(init_sandbox(w, FALSE, order), order), LAMBDA d :
    With(select(d.changed, files), LAMBDA selected :
    With(promote_loop(selected, 1, dry_run,
             [tree |-> d.w.tree, dirs |-> d.w.tw.dirs, promoted |-> <<>>,
              copied |-> {}, raised |-> FALSE]),
         LAMBDA done :
             [w |-> [d.w EXCEPT !.tree = done.tree, !.tw.dirs = done.dirs,
                                !.state_file =
                                    IF STATE_FILE \in done.copied /\ is_file(done.tree, STATE_FILE)
                                       /\ done.tree[STATE_FILE] = Kept
                                    THEN d.w.tw.sandbox_state_file ELSE @],
              selected |-> selected, promoted |-> done.promoted, raised |-> done.raised])))

\* cycles calls of cycle() on an Orchestrator without API key whose
\* repo_root holds tree: acc is its tree, state, state file, audit log,
\* pending list, and the ids produced so far
RECURSIVE cycles_of(_, _)
cycles_of(n, acc) ==
    IF n = 0 \/ acc.raised THEN acc
    ELSE LET proposed == propose(acc.state)
             noted == propose_note(acc.tree)
             r == submit_all(proposed.proposals,
                      [pending |-> acc.pending, scored |-> <<>>, raised |-> FALSE])
             st1 == [acc.state EXCEPT !.cycle = @ + 1]
             saved == _save_state(noted, acc.state_file, st1)
             logged == logger_write(saved.tree, acc.evo_log,
                           [event |-> "cycle", cycle |-> st1.cycle, id |-> "",
                            names |-> [i \in 1..Len(r.scored) |-> r.scored[i].id]])
         IN  IF r.raised
             THEN [acc EXCEPT !.tree = noted, !.pending = r.pending, !.raised = TRUE]
             ELSE With([acc EXCEPT !.tree = logged.tree, !.state = st1,
                                   !.state_file = saved.state_file,
                                   !.evo_log = logged.log, !.pending = r.pending,
                                   !.produced = @ \o [i \in 1..Len(r.scored) |-> r.scored[i].id],
                                   !.raised = logged.raised],
                       LAMBDA next : cycles_of(n - 1, next))

\* Orchestrator(repo_root) constructed on tree with state file sf, then
\* cycles calls of cycle()
orchestrator_cycles(tree, sf, cycles) ==
    cycles_of(cycles, [tree |-> tree, state |-> _load_state(tree, sf), state_file |-> sf,
                       evo_log |-> <<>>, pending |-> <<>>, produced |-> <<>>, raised |-> FALSE])

\* a sandbox_cycle whose Orchestrator is constructed on repo_root
sandbox_cycle_on_repo_root(w, cycles, order) ==
    With(init_sandbox(w, FALSE, order), LAMBDA w1 :
    With(orchestrator_cycles(w1.tree, w1.state_file, cycles), LAMBDA done :
        [w |-> [w1 EXCEPT !.tree = done.tree, !.state_file = done.state_file,
                          !.tw.dirs = @ \cup {"logs"}],
         produced |-> done.produced, raised |-> done.raised]))

\* TwinCoordinator.sandbox_cycle(cycles, dry_run), dry_run is passed to
\* cycle(), which does not read it
sandbox_cycle(w, cycles, order) ==
    With(init_sandbox(w, FALSE, order), LAMBDA w1 :
    With(orchestrator_cycles(subtree(w1.tree, SANDBOX_DIR), w1.tw.sandbox_state_file, cycles),
         LAMBDA done :
        [w |-> [w1 EXCEPT !.tree = graft(w1.tree, SANDBOX_DIR, done.tree),
                          !.tw.sandbox_state_file = done.state_file,
                          !.tw.sandbox_evo_log = @ \o done.evo_log,
                          !.tw.dirs = @ \cup {join_path(SANDBOX_DIR, "logs")}],
         produced |-> done.produced, raised |-> done.raised]))

\* ------------------------------------------------------------------------
\* TwinCoordinator operations
\* ------------------------------------------------------------------------

\* the world the twin operations find, and the world they leave
ThisWorld == World(fs, twin, state_file)

Becomes(w) == fs' = w.tree /\ twin' = w.tw /\ state_file' = w.state_file

\* TwinCoordinator.init_sandbox(force)
InitSandbox(force, order) ==
    /\ calls' = calls + 1
    /\ Becomes(init_sandbox(ThisWorld, force, order))
    /\ result' = Result("init_sandbox", "", force, "ok", NoProposal, NoFiles)
    /\ asked' = [asked EXCEPT !.files = NoneFiles, !.cycles = 0]
    /\ UNCHANGED <<rl, sim>>
    /\ run' = NoRun
    /\ UNCHANGED <<pending, state, version_log, evo_log, generated, race>>

\* TwinCoordinator.diff_changed_files()
DiffChangedFiles(order) ==
    /\ calls' = calls + 1
    /\ \E d \in {diff_changed_files(ThisWorld, order)} :
           /\ Becomes(d.w)
           /\ result' = Result("diff_changed_files", "", FALSE, "ok", NoProposal, d.changed)
    /\ asked' = [asked EXCEPT !.files = NoneFiles, !.cycles = 0]
    /\ UNCHANGED <<rl, sim>>
    /\ run' = NoRun
    /\ UNCHANGED <<pending, state, version_log, evo_log, generated, race>>

\* TwinCoordinator.sandbox_cycle(cycles, dry_run)
SandboxCycle(cycles, dry_run, order) ==
    /\ calls' = calls + 1
    /\ \E r \in {sandbox_cycle(ThisWorld, cycles, order)} :
           /\ Becomes(r.w)
           /\ result' = Result("sandbox_cycle", "", dry_run,
                               IF r.raised THEN "LogError" ELSE "ok", NoProposal, r.produced)
    /\ asked' = [asked EXCEPT !.files = NoneFiles, !.cycles = cycles]
    /\ UNCHANGED <<rl, sim>>
    /\ run' = NoRun
    /\ UNCHANGED <<pending, state, version_log, evo_log, generated, race>>

\* TwinCoordinator.promote(files, dry_run)
Promote(files, dry_run, order) ==
    /\ calls' = calls + 1
    /\ \E r \in {promote(ThisWorld, files, dry_run, order)} :
           /\ Becomes(r.w)
           /\ result' = Result("promote", "", dry_run,
                               IF r.raised THEN "IOError" ELSE "ok", NoProposal, r.promoted)
    /\ asked' = [asked EXCEPT !.files = files, !.cycles = 0]
    /\ UNCHANGED <<rl, sim>>
    /\ run' = NoRun
    /\ UNCHANGED <<pending, state, version_log, evo_log, generated, race>>

\* Someone writes a file below the sandbox directory, which exists
EditSandbox(rel, content) ==
    /\ dir_exists(fs, twin.dirs, SANDBOX_DIR)
    /\ calls' = calls + 1
    /\ LET w == apply_patch(fs, join_path(SANDBOX_DIR, rel), content)
       IN  /\ ~w.raised
           /\ fs' = w.tree
    /\ result' = Result("edit_sandbox", rel, FALSE, "ok", NoProposal, NoFiles)
    /\ asked' = [asked EXCEPT !.files = NoneFiles, !.cycles = 0]
    /\ UNCHANGED <<rl, sim>>
    /\ run' = NoRun
    /\ UNCHANGED <<pending, state, state_file, version_log, evo_log, generated, twin, race>>

\* Someone writes a file of the main tree
EditMain(path, content) ==
    /\ ~dir_exists(fs, twin.dirs, path)
    /\ calls' = calls + 1
    /\ LET w == apply_patch(fs, path, content)
       IN  /\ ~w.raised
           /\ fs' = w.tree
    /\ result' = Result("edit_main", path, FALSE, "ok", NoProposal, NoFiles)
    /\ asked' = [asked EXCEPT !.files = NoneFiles, !.cycles = 0]
    /\ UNCHANGED <<rl, sim>>
    /\ run' = NoRun
    /\ UNCHANGED <<pending, state, state_file, version_log, evo_log, generated, twin, race>>

\* ------------------------------------------------------------------------
\* core/twin.py: SnapshotManager
\* ------------------------------------------------------------------------

\* SnapshotMeta; the timestamp is left out
SnapshotMeta(id, label, path) == [id |-> id, label |-> label, path |-> path]

\* a _load_all that cannot read meta.json
_load_all_unreadable(tree, tw) == <<>>

\* _load_all: the entries of meta.json, [] when it cannot be read
_load_all(tree, tw) == IF is_file(tree, META_FILE) THEN tw.meta ELSE <<>>

\* _save_all: write_text of meta.json in try/except
_save_all(w, snaps) ==
    IF dir_exists(w.tree, w.tw.dirs, META_FILE) THEN w
    ELSE [w EXCEPT !.tree = put(@, META_FILE, Kept), !.tw.meta = snaps]

\* SnapshotManager.create(label); order is the order in which rglob yields
\* the files of the main tree. The state file of the orchestrator, when it
\* is among them, is copied with what it holds.
create(w, label, order) ==
    LET snaps   == _load_all(w.tree, w.tw)
        snap_id == "s" \o ToString(Len(snaps) + 1)
        folder  == join_path(SNAP_DIR, snap_id)
        made    == mkdir_parents(w.tree, w.tw.dirs, folder)
        copied  == copy_loop("", folder, order, 1,
                       [tree |-> w.tree, dirs |-> made.dirs, raised |-> FALSE])
        meta    == SnapshotMeta(snap_id, label, folder)
        holds   == [w EXCEPT !.tree = copied.tree, !.tw.dirs = copied.dirs,
                             !.tw.snap_state =
                                 IF STATE_FILE \in Range(order)
                                 THEN dict_set(@, snap_id, w.state_file) ELSE @]
    IN  IF made.raised THEN [w |-> w, meta |-> meta, raised |-> TRUE]
        ELSE IF copied.raised THEN [w |-> holds, meta |-> meta, raised |-> TRUE]
        ELSE [w |-> _save_all(holds, Append(snaps, meta)), meta |-> meta, raised |-> FALSE]

\* next(s for s in snaps if s.id == snap_id)
HasSnapshot(snaps, snap_id) == \E i \in 1..Len(snaps) : snaps[i].id = snap_id

first_snapshot(snaps, snap_id) ==
    snaps[CHOOSE i \in 1..Len(snaps) :
              snaps[i].id = snap_id /\ \A j \in 1..(i - 1) : snaps[j].id # snap_id]

\* the files restore copies back, relative to the snapshot's folder
snapshot_files(w, snap_id) ==
    LET snaps == _load_all(w.tree, w.tw)
    IN  IF HasSnapshot(snaps, snap_id)
        THEN _iter_files(w.tree, first_snapshot(snaps, snap_id).path)
        ELSE {}

\* SnapshotManager.restore(snap_id); order is the order in which rglob
\* yields the files of the snapshot folder
restore(w, snap_id, order) ==
    LET snaps  == _load_all(w.tree, w.tw)
        src    == first_snapshot(snaps, snap_id).path
        copied == copy_loop(src, "", order, 1,
                      [tree |-> w.tree, dirs |-> w.tw.dirs, raised |-> FALSE])
    IN  IF ~HasSnapshot(snaps, snap_id)
        THEN [w |-> w, returned |-> FALSE, raised |-> FALSE]
        ELSE IF ~dir_exists(w.tree, w.tw.dirs, src)
        THEN [w |-> w, returned |-> FALSE, raised |-> FALSE]
        ELSE [w |-> [w EXCEPT !.tree = copied.tree, !.tw.dirs = copied.dirs,
                              !.state_file =
                                  IF STATE_FILE \in Range(order) /\ snap_id \in DOMAIN w.tw.snap_state
                                     /\ is_file(copied.tree, STATE_FILE)
                                     /\ copied.tree[STATE_FILE] = Kept
                                  THEN w.tw.snap_state[snap_id] ELSE @],
              returned |-> ~copied.raised, raised |-> copied.raised]

\* ------------------------------------------------------------------------
\* SnapshotManager operations
\* ------------------------------------------------------------------------

\* the allow-listed files of the main tree with their content
allow_listed_tree(tree) == [f \in _iter_files(tree, "") |-> tree[f]]

\* SnapshotManager.create(label)
SnapCreate(label, order) ==
    /\ calls' = calls + 1
    /\ \E r \in {create(ThisWorld, label, order)} :
           /\ Becomes(r.w)
           /\ result' = Result("create", r.meta.id, FALSE,
                               IF r.raised THEN "IOError" ELSE "ok", NoProposal, NoFiles)
           /\ asked' = [asked EXCEPT !.taken =
                            IF r.raised THEN @ ELSE dict_set(@, r.meta.id, allow_listed_tree(fs))]
           /\ UNCHANGED <<rl, sim>>
    /\ run' = NoRun
    /\ UNCHANGED <<pending, state, version_log, evo_log, generated, race>>

\* SnapshotManager.restore(snap_id)
SnapRestore(snap_id, order) ==
    /\ calls' = calls + 1
    /\ \E r \in {restore(ThisWorld, snap_id, order)} :
           /\ Becomes(r.w)
           /\ result' = Result("restore", snap_id, FALSE,
                               IF r.raised THEN "IOError"
                               ELSE IF r.returned THEN "true" ELSE "false",
                               NoProposal, NoFiles)
    /\ run' = NoRun
    /\ UNCHANGED <<pending, state, version_log, evo_log, generated, race, asked, rl, sim>>

\* SnapshotManager.list()
SnapList ==
    /\ calls' = calls + 1
    /\ result' = Result("list", "", FALSE, "ok", NoProposal,
                        LET snaps == _load_all(fs, twin)
                        IN  [i \in 1..Len(snaps) |-> snaps[i].id])
    /\ run' = NoRun
    /\ UNCHANGED <<fs, pending, state, state_file, version_log, evo_log, generated, twin,
                   race, asked, rl, sim>>

\* Someone removes a file, or a directory with what is below it
Remove(path) ==
    /\ exists(fs, path) \/ path \in twin.dirs
    /\ calls' = calls + 1
    /\ fs' = [q \in {r \in DOMAIN fs : r # path /\ ~startswith(r, path \o "/")} |-> fs[q]]
    /\ twin' = [twin EXCEPT !.dirs = (rmtree_dirs(@, path) \cup ancestors(path)) \ {""}]
    /\ result' = Result("remove", path, FALSE, "ok", NoProposal, NoFiles)
    /\ run' = NoRun
    /\ UNCHANGED <<pending, state, state_file, version_log, evo_log, generated, race, asked, rl, sim>>

\* ScoringAgent.score(proposal) on one of the proposals at hand; the Score
\* is kept with the proposal
ScoreProposal(i) ==
    /\ i \in 1..Len(pending)
    /\ calls' = calls + 1
    /\ LET scored == [pending[i] EXCEPT !.score = score(pending[i])]
       IN  /\ pending' = [pending EXCEPT ![i] = scored]
           /\ result' = Result("score", scored.id, FALSE, "ok", scored, NoFiles)
    /\ run' = NoRun
    /\ UNCHANGED <<fs, state, state_file, version_log, evo_log, generated, twin, race, asked, rl, sim>>

\* ------------------------------------------------------------------------
\* core/orchestrator.py: two apply_after_approval(id, dry_run=False) calls
\* running in two threads of one process. The code takes no lock, so the
\* threads may be switched between any two statements; a call is modelled
\* statement by statement, pc naming the statement it is about to execute.
\* ------------------------------------------------------------------------

\* the locals of a call that has not begun
Call(id) ==
    [pc |-> "call", arg |-> id, proposal |-> NoProposal, segments |-> <<>>, seg |-> 1,
     original |-> "", proposal_backups |-> <<>>, applied_files |-> <<>>, outcome |-> ""]

\* the call is between its first and its last statement
InCall(th) == th.pc \notin {"call", "done", "raised"}

\* what the two threads share: the repository, approvals.pending, self.state
\* and the files of the orchestrator
Shared(tree, pend, st, sf, vlog, elog) ==
    [tree |-> tree, pending |-> pend, state |-> st, state_file |-> sf,
     version_log |-> vlog, evo_log |-> elog]

Raise(sh, th, outcome) == [sh |-> sh, th |-> [th EXCEPT !.pc = "raised", !.outcome = outcome]]

Goto(sh, th, pc) == [sh |-> sh, th |-> [th EXCEPT !.pc = pc]]

\* the next statement of a call (orchestrator.py 64-141, dry_run false)
apply_statement(sh, th) ==
    LET id    == th.proposal.id
        fname == th.segments[th.seg].file
        bpath == backup_path_of(fname, id)
    IN  CASE th.pc = "call" ->
                 \* approve, validate_diff_security, the segments of the diff
                 LET a == approve(sh.pending, th.arg)
                     segments == segments_of(a.proposal.diff)
                     sh1 == [sh EXCEPT !.pending = a.pending]
                     th1 == [th EXCEPT !.proposal = a.proposal, !.segments = segments]
                 IN  IF a.raised THEN Raise(sh, th, "NotFound")
                     ELSE IF ~validate_diff_security(a.proposal.diff)
                     THEN Raise(sh1, th1, "SecurityViolation")
                     ELSE IF segments = <<>>
                     THEN [sh |-> sh1, th |-> [th1 EXCEPT !.pc = "done", !.outcome = "nothing"]]
                     ELSE Goto(sh1, th1, "push")
          [] th.pc = "push" ->
                 \* self.state.accepted_patches.append(proposal.id)
                 Goto([sh EXCEPT !.state.accepted_patches = Append(@, id)], th, "exists")
          [] th.pc = "exists" ->
                 \* if target.exists()
                 IF exists(sh.tree, fname) THEN Goto(sh, th, "read")
                 ELSE Goto(sh, [th EXCEPT !.proposal_backups =
                                   Append(@, [file |-> fname, path |-> NoPath,
                                              original_exists |-> FALSE])], "write")
          [] th.pc = "read" ->
                 \* original = target.read_text()
                 IF ~is_file(sh.tree, fname) THEN Raise(sh, th, "IOError")
                 ELSE Goto(sh, [th EXCEPT !.original = read_text(sh.tree[fname])], "backup")
          [] th.pc = "backup" ->
                 \* backup_path.write_text(original) in try/except, then the
                 \* record of the backup
                 Goto([sh EXCEPT !.tree = write_text(@, bpath, th.original).tree],
                      [th EXCEPT !.proposal_backups =
                          Append(@, [file |-> fname, path |-> bpath, original_exists |-> TRUE])],
                      "write")
          [] th.pc = "write" ->
                 \* apply_patch(self.repo_root, fname, new_content)
                 LET wr == apply_patch(sh.tree, fname, _reconstruct(th.segments[th.seg].lines))
                 IN  IF wr.raised THEN Raise(sh, th, "IOError")
                     ELSE Goto([sh EXCEPT !.tree = wr.tree], th, "record")
          [] th.pc = "record" ->
                 \* the version history record in try/except, applied_files,
                 \* and on to the next segment
                 LET vf == append_line(sh.tree, VERSION_LOG)
                     rec == [proposal |-> id, file |-> fname,
                             sha |-> _reconstruct(th.segments[th.seg].lines),
                             cycle |-> sh.state.cycle]
                 IN  Goto([sh EXCEPT !.tree = vf.tree,
                                     !.version_log = IF vf.raised THEN @ ELSE Append(@, rec)],
                          [th EXCEPT !.applied_files = Append(@, fname), !.seg = @ + 1],
                          IF th.seg < Len(th.segments) THEN "exists" ELSE "store")
          [] th.pc = "store" ->
                 \* self.state.backups[proposal.id] = proposal_backups
                 Goto([sh EXCEPT !.state.backups = dict_set(@, id, th.proposal_backups)],
                      th, "changelog")
          [] th.pc = "changelog" ->
                 LET chg == lightweight_changelog(sh.tree,
                                "Applied " \o id \o " -> " \o comma_join(th.applied_files))
                 IN  IF th.applied_files = <<>> THEN Goto(sh, th, "log")
                     ELSE IF chg.raised THEN Raise(sh, th, "LogError")
                     ELSE Goto([sh EXCEPT !.tree = chg.tree], th, "log")
          [] th.pc = "log" ->
                 LET logged == logger_write(sh.tree, sh.evo_log,
                                   [event |-> "apply", cycle |-> sh.state.cycle,
                                    id |-> id, names |-> th.applied_files])
                 IN  IF logged.raised THEN Raise(sh, th, "LogError")
                     ELSE Goto([sh EXCEPT !.tree = logged.tree, !.evo_log = logged.log],
                               th, "save")
          [] th.pc = "save" ->
                 \* self._save_state(), then the return
                 LET saved == _save_state(sh.tree, sh.state_file, sh.state)
                 IN  [sh |-> [sh EXCEPT !.tree = saved.tree, !.state_file = saved.state_file],
                      th |-> [th EXCEPT !.pc = "done", !.outcome = "applied"]]

\* Thread t executes the next statement of its call
ApplyStatement(t) ==
    LET th == race.th[t]
        r  == apply_statement(Shared(fs, pending, state, state_file, version_log, evo_log), th)
    IN  /\ race.active
        /\ th.pc \notin {"done", "raised"}
        /\ fs' = r.sh.tree
        /\ pending' = r.sh.pending
        /\ state' = r.sh.state
        /\ state_file' = r.sh.state_file
        /\ version_log' = r.sh.version_log
        /\ evo_log' = r.sh.evo_log
        /\ race' = [race EXCEPT !.th[t] = r.th,
                                !.overlapped = @ \/ InCall(race.th[3 - t])]
        /\ calls' = IF th.pc = "call" THEN calls + 1 ELSE calls
        /\ result' = IF r.th.pc \in {"done", "raised"}
                     THEN Result("apply", th.arg, FALSE, r.th.outcome, r.th.proposal,
                                 r.th.applied_files)
                     ELSE result
        /\ run' = NoRun
        /\ UNCHANGED <<generated, twin, asked, rl, sim>>

\* the ids a caller may name: those pending, and one that is not
CallerIds == {pending[i].id : i \in 1..Len(pending)} \cup {"missing"}

\* The lifecycle driven by cycle(): proposals come from the generator
Next ==
    \/ calls < MaxCalls /\ Cycle
    \/ calls < MaxCalls /\ \E id \in CallerIds : Approve(id)
    \/ calls < MaxCalls /\ \E id \in CallerIds : \E dry_run \in BOOLEAN : Apply(id, dry_run)
    \/ calls < MaxCalls /\ UndoLast

Spec == Init /\ [][Next]_vars

\* The lifecycle of proposals a caller submits to the gate itself
NextGate ==
    \/ calls < MaxGateCalls /\ Len(pending) < MaxPending
          /\ \E proposal \in InjectedProposals : Submit(proposal)
    \/ calls < MaxGateCalls /\ \E id \in CallerIds : Approve(id)
    \/ calls < MaxGateCalls /\ \E id \in CallerIds : \E dry_run \in BOOLEAN : Apply(id, dry_run)
    \/ calls < MaxGateCalls /\ UndoLast
    \/ calls < MaxGateCalls /\ ListPending
    \/ calls < MaxGateCalls /\ \E id \in CallerIds : Preview(id)

SpecGate == Init /\ [][NextGate]_vars

\* The lifecycle driven by cycle() when the client has a key
UuidDraws == { <<"a1b2c3", "d4e5f6", "0718ab">>, <<"a1b2c3", "a1b2c3", "a1b2c3">> }

NextClient ==
    \/ calls < MaxClientCalls /\ Len(pending) < MaxPending
          /\ \E raw \in Responses : \E uuids \in UuidDraws : CycleClient(raw, uuids)
    \/ calls < MaxClientCalls /\ \E id \in CallerIds : \E dry_run \in BOOLEAN : Apply(id, dry_run)
    \/ calls < MaxClientCalls /\ UndoLast
    \/ calls < MaxClientCalls /\ \E id \in CallerIds : Preview(id)

SpecClient == Init /\ [][NextClient]_vars

\* The lifecycle when a caller submits proposals that name paths below the
\* orchestrator's own files
NextOwnFiles ==
    \/ calls < MaxGateCalls /\ Len(pending) < MaxPending
          /\ \E proposal \in OwnFileProposals : Submit(proposal)
    \/ calls < MaxGateCalls /\ \E id \in CallerIds : \E dry_run \in BOOLEAN : Apply(id, dry_run)
    \/ calls < MaxGateCalls /\ UndoLast
    \/ calls < MaxGateCalls /\ Cycle

SpecOwnFiles == Init /\ [][NextOwnFiles]_vars

\* The sandbox of a TwinCoordinator, next to the main Orchestrator
MaxTwinCalls == 3

MaxSandboxCycles == 2

TwinTrees ==
    { <<>>,
      [f \in {"A.md", "d/B.md", "logs/old.md", "data.bin"} |-> "text of " \o f \o "\n"] }

TwinEdits == {"A.md", "new/C.md"}

FilesArguments == {NoneFiles, ListOf({}), ListOf({"A.md", "absent.md"})}

\* a TwinCoordinator and an Orchestrator constructed on a repository
\* without state file and without .twin
InitTwin ==
    /\ fs \in TwinTrees
    /\ pending = <<>>
    /\ state_file = [exists |-> FALSE, content |-> DefaultState]
    /\ state = _load_state(fs, state_file)
    /\ version_log = <<>>
    /\ evo_log = <<>>
    /\ result = Result("init", "", FALSE, "ok", NoProposal, NoFiles)
    /\ generated = NoneGenerated
    /\ run = NoRun
    /\ calls = 0
    /\ twin = [NoTwin EXCEPT !.dirs = {TWIN_DIR}]
    /\ race = NoRace
    /\ asked = NotAsked
    /\ rl = NoLimiter
    /\ sim = NoSim

\* init_sandbox copies into a directory it has just made, so its loop never
\* leaves early and the order in which rglob yields the files does not
\* show: the files are taken in sorted order
MainOrder == sorted(_iter_files(fs, ""))

NextTwin ==
    \/ calls < MaxTwinCalls /\ \E force \in BOOLEAN : InitSandbox(force, MainOrder)
    \/ calls < MaxTwinCalls /\ DiffChangedFiles(MainOrder)
    \/ calls < MaxTwinCalls /\ \E cycles \in 1..MaxSandboxCycles : SandboxCycle(cycles, TRUE, MainOrder)
    \/ calls < MaxTwinCalls /\ \E rel \in TwinEdits : EditSandbox(rel, "edited\n")
    \/ calls < MaxTwinCalls /\ EditMain("A.md", "main edit\n")
    \/ calls < MaxTwinCalls /\ Cycle

SpecTwin == InitTwin /\ [][NextTwin]_vars

\* Promotion out of a sandbox that was edited or cycled in
NextPromote ==
    \/ calls < MaxTwinCalls /\ \E files \in FilesArguments : \E dry_run \in BOOLEAN :
                                 Promote(files, dry_run, MainOrder)
    \/ calls < MaxTwinCalls /\ \E rel \in TwinEdits : EditSandbox(rel, "edited\n")
    \/ calls < MaxTwinCalls /\ \E force \in BOOLEAN : InitSandbox(force, MainOrder)
    \/ calls < MaxTwinCalls /\ SandboxCycle(1, TRUE, MainOrder)

SpecPromote == InitTwin /\ [][NextPromote]_vars

\* A SnapshotManager on a repository that is edited between its calls
MaxSnapCalls == 4

SnapTrees ==
    { <<>>,
      [f \in {"A.md", "d/B.md", "data.bin"} |-> "text of " \o f \o "\n"] }

\* what is written and removed between the calls: a file, a file where a
\* directory was, a directory where a file was, a snapshot's folder
SnapWrites == {"A.md", "A.md/x.md", "d"}

SnapRemovals == {"A.md", "d", ".twin/snapshots/s1"}

SnapIds == {"s1", "s2", "s9"}

\* SnapshotManager.__init__ on a repository without .twin
InitSnap ==
    /\ \E tree \in SnapTrees : fs = put(tree, META_FILE, Kept)
    /\ pending = <<>>
    /\ state_file = [exists |-> FALSE, content |-> DefaultState]
    /\ state = DefaultState
    /\ version_log = <<>>
    /\ evo_log = <<>>
    /\ result = Result("init", "", FALSE, "ok", NoProposal, NoFiles)
    /\ generated = NoneGenerated
    /\ run = NoRun
    /\ calls = 0
    /\ twin = [NoTwin EXCEPT !.dirs = {TWIN_DIR, SNAP_DIR}]
    /\ race = NoRace
    /\ asked = NotAsked
    /\ rl = NoLimiter
    /\ sim = NoSim

NextSnap ==
    \/ calls < MaxSnapCalls /\ \E order \in Orders(_iter_files(fs, "")) : SnapCreate("label", order)
    \/ calls < MaxSnapCalls /\ \E snap_id \in SnapIds :
                                 \E order \in Orders(snapshot_files(ThisWorld, snap_id)) :
                                     SnapRestore(snap_id, order)
    \/ calls < MaxSnapCalls /\ SnapList
    \/ calls < MaxSnapCalls /\ \E path \in SnapWrites : EditMain(path, "main edit\n")
    \/ calls < MaxSnapCalls /\ \E path \in SnapRemovals : Remove(path)

SpecSnap == InitSnap /\ [][NextSnap]_vars

\* ScoringAgent.score alone, on two proposals with descriptions of every
\* length up to a bound beyond the one at which impact stops growing
MaxDescription == 62

MaxScoreCalls == 3

LongText == "Improve the onboarding documentation and explain every command of the chat interface."

Descriptions == {SubSeq(LongText, 1, n) : n \in 0..MaxDescription}

InitScore ==
    /\ fs = <<>>
    /\ \E d1 \in Descriptions : \E d2 \in Descriptions :
           pending = <<PatchProposal("p1", d1, ""), PatchProposal("p2", d2, "")>>
    /\ state_file = [exists |-> FALSE, content |-> DefaultState]
    /\ state = DefaultState
    /\ version_log = <<>>
    /\ evo_log = <<>>
    /\ result = Result("init", "", FALSE, "ok", NoProposal, NoFiles)
    /\ generated = NoneGenerated
    /\ run = NoRun
    /\ calls = 0
    /\ twin = NoTwin
    /\ race = NoRace
    /\ asked = NotAsked
    /\ rl = NoLimiter
    /\ sim = NoSim

NextScore == calls < MaxScoreCalls /\ \E i \in 1..2 : ScoreProposal(i)

SpecScore == InitScore /\ [][NextScore]_vars

\* Two threads applying two pending proposals that rewrite the same file,
\* then undo_last() until nothing is left to undo
MaxRaceCalls == 4

RaceFile == "A.md"

RaceTrees == { <<>>, [f \in {RaceFile} |-> "original\n"] }

RaceProposals ==
    << PatchProposal("pA", "first rewrite", "--- a/A.md\n+++ b/A.md\n@@\n-original\n+from pA\n"),
       PatchProposal("pB", "second rewrite", "--- a/A.md\n+++ b/A.md\n@@\n-original\n+from pB\n") >>

InitRace ==
    /\ fs \in RaceTrees
    /\ pending = RaceProposals
    /\ state_file = [exists |-> FALSE, content |-> DefaultState]
    /\ state = DefaultState
    /\ version_log = <<>>
    /\ evo_log = <<>>
    /\ result = Result("init", "", FALSE, "ok", NoProposal, NoFiles)
    /\ generated = NoneGenerated
    /\ run = NoRun
    /\ calls = 0
    /\ twin = NoTwin
    /\ race = [active |-> TRUE, base |-> fs, overlapped |-> FALSE,
               th |-> [t \in 1..2 |-> Call(RaceProposals[t].id)]]
    /\ asked = NotAsked
    /\ rl = NoLimiter
    /\ sim = NoSim

\* undo_last is called once both calls have returned
NextRace ==
    \/ \E t \in 1..2 : ApplyStatement(t)
    \/ /\ calls < MaxRaceCalls
       /\ \A t \in 1..2 : race.th[t].pc \in {"done", "raised"}
       /\ UndoLast

SpecRace == InitRace /\ [][NextRace]_vars

\* Proposals whose diffs name paths in unusual ways: above the repository
\* root, absolute, the same file twice, two names with one flattened form.
\* The caller applies a pending id, an unknown id, or the id of the call
\* before once more.
MaxPathCalls == 3

PathTrees ==
    { <<>>,
      [f \in {"A.md"} |-> "alt\n"],
      [f \in {"a/b.md", "a_b.md"} |-> IF f = "a/b.md" THEN "one\n" ELSE "two\n"] }

PathProposals ==
    { PatchProposal("pUp", "test", "--- a/../out.md\n+++ b/../out.md\n+x\n"),
      PatchProposal("pAbs", "test", "--- a//srv/out.md\n+++ b//srv/out.md\n+x\n"),
      PatchProposal("pEtc", "test", "--- a//etc/motd.md\n+++ b//etc/motd.md\n+x\n"),
      PatchProposal("pTwice", "test",
          "--- a/A.md\n+++ b/A.md\n+one\n--- a/A.md\n+++ b/A.md\n+two\n"),
      PatchProposal("pCol", "test",
          "--- a/a/b.md\n+++ b/a/b.md\n+x\n--- a/a_b.md\n+++ b/a_b.md\n+y\n"),
      PatchProposal("pDir", "test", "--- a/A.md/x.md\n+++ b/A.md/x.md\n+y\n"),
      PatchProposal("pNone", "test", "no file header here\n") }

NextPaths ==
    \/ calls < MaxPathCalls /\ Len(pending) < MaxPending
          /\ \E proposal \in PathProposals : Submit(proposal)
    \/ calls < MaxPathCalls /\ \E id \in CallerIds \cup {result.id} : \E dry_run \in BOOLEAN :
                                 Apply(id, dry_run)
    \/ calls < MaxPathCalls /\ UndoLast

InitPaths ==
    /\ fs \in PathTrees
    /\ pending = <<>>
    /\ state_file = [exists |-> FALSE, content |-> DefaultState]
    /\ state = _load_state(fs, state_file)
    /\ version_log = <<>>
    /\ evo_log = <<>>
    /\ result = Result("init", "", FALSE, "ok", NoProposal, NoFiles)
    /\ generated = NoneGenerated
    /\ run = NoRun
    /\ calls = 0
    /\ twin = NoTwin
    /\ race = NoRace
    /\ asked = NotAsked
    /\ rl = NoLimiter
    /\ sim = NoSim

SpecPaths == InitPaths /\ [][NextPaths]_vars

\* Orchestrator(repo_root) constructed again on the same repository, as
\* every run of run_simulation.py does: the state is read from the state
\* file, the ApprovalGate starts with no pending proposal
Restart ==
    /\ calls' = calls + 1
    /\ state' = _load_state(fs, state_file)
    /\ pending' = <<>>
    /\ result' = Result("restart", "", FALSE, "ok", NoProposal, NoFiles)
    /\ run' = NoRun
    /\ UNCHANGED <<fs, state_file, version_log, evo_log, generated, twin, race, asked, rl, sim>>

\* the ids a caller of run_simulation.py --apply may name: those it saw
\* printed by the last cycle, and those pending
SeenIds ==
    {generated.proposals[i].id : i \in 1..Len(generated.proposals)}
        \cup {pending[i].id : i \in 1..Len(pending)}

\* Processes that run cycles without an API key, apply a proposal by id
\* (run_simulation.py applies only when --dry-run is off) and end; the next
\* process constructs the Orchestrator again
MaxRestartCalls == 7

NextRestart ==
    \/ calls < MaxRestartCalls /\ Cycle
    \/ calls < MaxRestartCalls /\ Restart
    \/ calls < MaxRestartCalls /\ \E id \in SeenIds : Apply(id, FALSE)

InitRestart ==
    /\ fs \in {<<>>, [f \in {"README.md"} |-> "readme\n"]}
    /\ pending = <<>>
    /\ state_file = [exists |-> FALSE, content |-> DefaultState]
    /\ state = _load_state(fs, state_file)
    /\ version_log = <<>>
    /\ evo_log = <<>>
    /\ result = Result("init", "", FALSE, "ok", NoProposal, NoFiles)
    /\ generated = NoneGenerated
    /\ run = NoRun
    /\ calls = 0
    /\ twin = NoTwin
    /\ race = NoRace
    /\ asked = NotAsked
    /\ rl = NoLimiter
    /\ sim = NoSim

SpecRestart == InitRestart /\ [][NextRestart]_vars

\* cycle() of an Orchestrator whose client has a key, on answers with and
\* without prose around the array
MaxExtractCalls == 2

ExtractResponses ==
    { r_one, r_two, r_inner, r_prose, r_malformed, r_nested, r_scalars, r_empty,
      r_late, r_mixed, r_http, r_sentinel }

NextExtract ==
    calls < MaxExtractCalls
        /\ \E raw \in ExtractResponses : CycleClient(raw, <<"a1b2c3", "d4e5f6", "0718ab">>)

SpecExtract == Init /\ [][NextExtract]_vars

\* Proposals whose one segment holds up to MaxLines lines of the kinds
\* _reconstruct tells apart (added, added with indentation, added empty,
\* removed, context with trailing blank, "+++" that is no marker): one
\* is submitted, then applied and undone
MaxLines == 3
MaxReconstructCalls == 3

DiffLines == {"+x", "+  y", "+", "-z", "c ", "+++ q"}

LineLists == UNION {[1..n -> DiffLines] : n \in 0..MaxLines}

DiffOf(lines) ==
    "--- a/A.md\n+++ b/A.md\n" \o (IF lines = <<>> THEN "" ELSE join("\n", lines) \o "\n")

NextReconstruct ==
    \/ calls < MaxReconstructCalls /\ result.op = "init"
          /\ \E lines \in LineLists : Submit(PatchProposal("pR", "test", DiffOf(lines)))
    \/ calls < MaxReconstructCalls /\ \E dry_run \in BOOLEAN : Apply("pR", dry_run)
    \/ calls < MaxReconstructCalls /\ UndoLast

InitReconstruct ==
    /\ fs = <<>>
    /\ pending = <<>>
    /\ state_file = [exists |-> FALSE, content |-> DefaultState]
    /\ state = _load_state(fs, state_file)
    /\ version_log = <<>>
    /\ evo_log = <<>>
    /\ result = Result("init", "", FALSE, "ok", NoProposal, NoFiles)
    /\ generated = NoneGenerated
    /\ run = NoRun
    /\ calls = 0
    /\ twin = NoTwin
    /\ race = NoRace
    /\ asked = NotAsked
    /\ rl = NoLimiter
    /\ sim = NoSim

SpecReconstruct == InitReconstruct /\ [][NextReconstruct]_vars

\* ------------------------------------------------------------------------
\* api/app.py: the in-memory rate limiter
\* ------------------------------------------------------------------------

Max(a, b) == IF a >= b THEN a ELSE b

\* d.get(k, 0)
get_count(d, k) == IF k \in DOMAIN d THEN d[k] ELSE 0

\* the per-IP limit of a window
ip_limit(limit) == Max(10, limit \div 4)

\* the block under _rl_lock that does not compare the caller's own count
rate_limit_locked_global_only(r, ip, now) ==
    LET reset  == now - r.window_start >= 60
        g      == (IF reset THEN 0 ELSE r.global_count) + 1
        base   == IF reset THEN <<>> ELSE r.ip_counts
        counts == dict_set(base, ip, get_count(base, ip) + 1)
    IN  [reset |-> reset,
         window_start |-> IF reset THEN now ELSE r.window_start,
         global_count |-> g,
         ip_counts |-> counts,
         ret |-> ~(g > r.RATE_LIMIT_PER_MIN)]

\* _rate_limit_allow, the block under _rl_lock: a window that is 60 s old
\* is started anew (counters cleared), both counters are incremented, then
\* compared with the limits
rate_limit_locked(r, ip, now) ==
    LET reset  == now - r.window_start >= 60
        g      == (IF reset THEN 0 ELSE r.global_count) + 1
        base   == IF reset THEN <<>> ELSE r.ip_counts
        counts == dict_set(base, ip, get_count(base, ip) + 1)
    IN  [reset |-> reset,
         window_start |-> IF reset THEN now ELSE r.window_start,
         global_count |-> g,
         ip_counts |-> counts,
         ret |-> IF g > r.RATE_LIMIT_PER_MIN THEN FALSE
                 ELSE IF counts[ip] > ip_limit(r.RATE_LIMIT_PER_MIN) THEN FALSE
                 ELSE TRUE]

\* a caller enters _rate_limit_allow(ip): now = time.time() is read before
\* the lock is taken
RateEnter(t, ip) ==
    /\ rl.active
    /\ rl.th[t].pc = "idle"
    /\ rl' = [rl EXCEPT !.th[t] = [pc |-> "lock", ip |-> ip, now |-> rl.clock]]
    /\ UNCHANGED <<fs, pending, state, state_file, version_log, evo_log, result, generated,
                   run, calls, twin, race, asked, sim>>

\* the caller holds _rl_lock, runs the block and returns; allowed and
\* allowed_by_ip count the True answers since the window was started
RateLocked(t) ==
    /\ rl.active
    /\ rl.th[t].pc = "lock"
    /\ \E r \in {rate_limit_locked(rl, rl.th[t].ip, rl.th[t].now)} :
          /\ rl' = [rl EXCEPT !.th[t] = [pc |-> "idle", ip |-> "", now |-> 0],
                              !.window_start = r.window_start,
                              !.global_count = r.global_count,
                              !.ip_counts = r.ip_counts,
                              !.allowed = (IF r.reset THEN 0 ELSE @) + (IF r.ret THEN 1 ELSE 0),
                              !.allowed_by_ip =
                                  dict_set(IF r.reset THEN <<>> ELSE @, rl.th[t].ip,
                                           get_count(IF r.reset THEN <<>> ELSE @, rl.th[t].ip)
                                               + (IF r.ret THEN 1 ELSE 0)),
                              !.last = [reset |-> r.reset, now |-> rl.th[t].now,
                                        window_start |-> rl.window_start]]
          /\ result' = Result("_rate_limit_allow", rl.th[t].ip, FALSE,
                              IF r.ret THEN "True" ELSE "False", NoProposal, NoFiles)
    /\ calls' = calls + 1
    /\ run' = NoRun
    /\ UNCHANGED <<fs, pending, state, state_file, version_log, evo_log, generated,
                   twin, race, asked, sim>>

\* time passes, half a window at a time
RateClock ==
    /\ rl.active
    /\ rl' = [rl EXCEPT !.clock = @ + 30]
    /\ UNCHANGED <<fs, pending, state, state_file, version_log, evo_log, result, generated,
                   run, calls, twin, race, asked, sim>>

\* Two server threads answering requests of two clients, under the limits
\* RATE_LIMIT_PER_MIN may be set to (the environment, the tests)
MaxRateCalls == 11
MaxClock == 60

RateLimits == {1, 11}

RateIps == {"10.0.0.1", "10.0.0.2"}

Entering == Cardinality({t \in 1..2 : rl.th[t].pc = "lock"})

NextRate ==
    \/ calls + Entering < MaxRateCalls /\ \E t \in 1..2 : \E ip \in RateIps : RateEnter(t, ip)
    \/ \E t \in 1..2 : RateLocked(t)
    \/ rl.clock < MaxClock /\ RateClock

InitRate ==
    /\ fs = <<>>
    /\ pending = <<>>
    /\ state_file = [exists |-> FALSE, content |-> DefaultState]
    /\ state = _load_state(fs, state_file)
    /\ version_log = <<>>
    /\ evo_log = <<>>
    /\ result = Result("init", "", FALSE, "ok", NoProposal, NoFiles)
    /\ generated = NoneGenerated
    /\ run = NoRun
    /\ calls = 0
    /\ twin = NoTwin
    /\ race = NoRace
    /\ asked = NotAsked
    /\ sim = NoSim
    /\ \E limit \in RateLimits :
          rl = [active |-> TRUE, RATE_LIMIT_PER_MIN |-> limit, clock |-> 0,
                window_start |-> 0, global_count |-> 0, ip_counts |-> <<>>,
                th |-> [t \in 1..2 |-> [pc |-> "idle", ip |-> "", now |-> 0]],
                allowed |-> 0, allowed_by_ip |-> <<>>,
                last |-> [reset |-> FALSE, now |-> 0, window_start |-> 0]]

SpecRate == InitRate /\ [][NextRate]_vars

\* ------------------------------------------------------------------------
\* sim/world.py: the grid world. energy, knowledge and material are kept in
\* thousandths (the code adds and subtracts multiples of 0.001 and clamps
\* with min and max); exp, kind and notes, which no operation reads, are
\* left out
\* ------------------------------------------------------------------------

clamp(lo, hi, v) == Max(lo, Min(hi, v))

Entity(id, brain, x, y, energy, knowledge, material) ==
    [id |-> id, brain |-> brain, x |-> x, y |-> y, energy |-> energy,
     knowledge |-> knowledge, material |-> material]

\* STATE as the module defines it; no tick call in progress
EmptyWorld ==
    [active |-> TRUE, w |-> 0, h |-> 0, entities |-> <<>>, ticks |-> 0, controlled |-> "",
     left |-> 0, n |-> 0, from |-> 0]

\* init_world(w, h)
init_world(st, w, h) ==
    [st EXCEPT !.w = clamp(4, 200, w), !.h = clamp(4, 200, h),
               !.entities = <<>>, !.ticks = 0, !.controlled = ""]

\* spawn(kind, brain): eid is the id made of the clock, x and y the two
\* random.randint draws
spawn(st, eid, brain, x, y) ==
    IF st.w <= 0 THEN st
    ELSE [st EXCEPT !.entities =
              Append(@, Entity(eid, IF brain = "user" THEN "user" ELSE "auto", x, y, 1000, 0, 0))]

\* the first entity with the id, 0 when there is none
first_with(entities, eid) ==
    IF \E i \in 1..Len(entities) : entities[i].id = eid
    THEN CHOOSE i \in 1..Len(entities) :
             entities[i].id = eid /\ \A j \in 1..(i - 1) : entities[j].id # eid
    ELSE 0

\* control(eid)
control(st, eid) ==
    IF first_with(st.entities, eid) # 0 THEN [st EXCEPT !.controlled = eid] ELSE st

\* a move that is not clamped to the grid
move_unclamped(st, dx, dy) ==
    LET i == first_with(st.entities, st.controlled)
    IN  IF st.controlled = "" \/ i = 0 THEN st
        ELSE [st EXCEPT !.entities[i].x = @ + dx,
                        !.entities[i].y = @ + dy,
                        !.entities[i].energy = Max(0, @ - 20)]

\* move(dx, dy)
move(st, dx, dy) ==
    LET i == first_with(st.entities, st.controlled)
    IN  IF st.controlled = "" \/ i = 0 THEN st
        ELSE [st EXCEPT !.entities[i].x = Max(0, Min(st.w - 1, @ + dx)),
                        !.entities[i].y = Max(0, Min(st.h - 1, @ + dy)),
                        !.entities[i].energy = Max(0, @ - 20)]

\* what one entity draws in one iteration of tick: whether it moves
\* (random.random() < 0.6), the two random.choice steps, whether it gains
\* knowledge (< 0.2) and material (< 0.15)
Stay == [move |-> FALSE, dx |-> 0, dy |-> 0, k |-> FALSE, m |-> FALSE]

Draws ==
    {Stay} \cup [move : {TRUE}, dx : {-1, 0, 1}, dy : {-1, 0, 1}, k : BOOLEAN, m : BOOLEAN]

\* tick, step 1 of an iteration, for one entity
autonomous(st, e, d) ==
    IF e.brain = "auto" /\ e.energy > 50 /\ d.move
    THEN [e EXCEPT !.x = Max(0, Min(st.w - 1, @ + d.dx)),
                   !.y = Max(0, Min(st.h - 1, @ + d.dy)),
                   !.energy = Max(0, @ - 10),
                   !.knowledge = IF d.k THEN Min(10000, @ + 10) ELSE @,
                   !.material = IF d.m THEN Min(5000, @ + 5) ELSE @]
    ELSE e

\* tick, step 2 of an iteration: the bonuses of the entities that share a
\* cell
interaction(entities) ==
    [i \in 1..Len(entities) |->
        IF Cardinality({j \in 1..Len(entities) :
                           entities[j].x = entities[i].x /\ entities[j].y = entities[i].y}) > 1
        THEN [entities[i] EXCEPT !.energy = Min(1000, @ + 3),
                                 !.knowledge = Min(10000, @ + 4),
                                 !.material = Min(5000, @ + 1)]
        ELSE entities[i]]

\* one iteration of the loop of tick
tick_iteration(st, draws) ==
    [st EXCEPT !.ticks = @ + 1,
               !.entities = interaction([i \in 1..Len(st.entities) |->
                                            autonomous(st, st.entities[i], draws[i])]),
               !.left = @ - 1]

SimResult(op, outcome) == Result(op, "", FALSE, outcome, NoProposal, NoFiles)

SimFrame ==
    UNCHANGED <<fs, pending, state, state_file, version_log, evo_log, generated,
                twin, race, asked, rl>>

InitWorld(w, h) ==
    /\ sim.active /\ sim.left = 0
    /\ sim' = init_world(sim, w, h)
    /\ calls' = calls + 1
    /\ result' = SimResult("init_world", "ok")
    /\ run' = NoRun
    /\ SimFrame

Spawn(eid, brain) ==
    /\ sim.active /\ sim.left = 0
    /\ IF sim.w <= 0
       THEN sim' = sim
       ELSE \E x \in 0..(sim.w - 1) : \E y \in 0..(sim.h - 1) : sim' = spawn(sim, eid, brain, x, y)
    /\ calls' = calls + 1
    /\ result' = SimResult("spawn", IF sim.w <= 0 THEN "uninitialised" ELSE "ok")
    /\ run' = NoRun
    /\ SimFrame

Control(eid) ==
    /\ sim.active /\ sim.left = 0
    /\ sim' = control(sim, eid)
    /\ calls' = calls + 1
    /\ result' = SimResult("control", IF first_with(sim.entities, eid) # 0 THEN "ok" ELSE "NotFound")
    /\ run' = NoRun
    /\ SimFrame

Move(dx, dy) ==
    /\ sim.active /\ sim.left = 0
    /\ sim' = move(sim, dx, dy)
    /\ calls' = calls + 1
    /\ result' = SimResult("move", IF sim.controlled = "" THEN "uncontrolled"
                                   ELSE IF first_with(sim.entities, sim.controlled) = 0
                                   THEN "NotFound" ELSE "ok")
    /\ run' = NoRun
    /\ SimFrame

\* tick(n) is entered: an uninitialised world returns at once, else n is
\* clamped and the loop starts
TickEnter(n) ==
    /\ sim.active /\ sim.left = 0
    /\ IF sim.w <= 0
       THEN /\ sim' = sim
            /\ calls' = calls + 1
            /\ result' = SimResult("tick", "uninitialised")
       ELSE /\ sim' = [sim EXCEPT !.left = Max(1, Min(200, n)), !.n = n, !.from = sim.ticks]
            /\ UNCHANGED <<calls, result>>
    /\ run' = NoRun
    /\ SimFrame

\* one iteration of the loop (an entity that is not autonomous or has no
\* energy left draws nothing); the call returns after the last one
TickLoop ==
    /\ sim.active /\ sim.left > 0
    /\ \E draws \in [1..Len(sim.entities) -> Draws] :
          /\ \A i \in 1..Len(sim.entities) :
                 ~(sim.entities[i].brain = "auto" /\ sim.entities[i].energy > 50)
                     => draws[i] = Stay
          /\ sim' = tick_iteration(sim, draws)
    /\ IF sim.left = 1
       THEN /\ calls' = calls + 1
            /\ result' = SimResult("tick", "ok")
       ELSE UNCHANGED <<calls, result>>
    /\ run' = NoRun
    /\ SimFrame

\* The world as the module defines it, and two worlds read back from
\* world.json by configure_persistence as an earlier process saved them
\* after many ticks; callers that initialise, spawn, control, move and tick
\* (an autonomous entity is spawned into a world that has none; the
\* longest tick is the first call, on a world without autonomous entities)
MaxSimCalls == 3
MaxEntities == 1

SimIds == {"e1", "e2"}

SavedWorlds ==
    { [EmptyWorld EXCEPT !.w = 4, !.h = 4, !.ticks = 1000, !.controlled = "e2",
           !.entities = <<Entity("e1", "auto", 3, 0, 60, 9990, 4995),
                          Entity("e2", "user", 3, 0, 10, 9996, 4999)>>],
      [EmptyWorld EXCEPT !.w = 5, !.h = 4, !.ticks = 1000, !.controlled = "e1",
           !.entities = <<Entity("e1", "user", 0, 3, 30, 9999, 5000),
                          Entity("e1", "user", 0, 3, 999, 0, 0)>>] }

Calm == \A i \in 1..Len(sim.entities) : sim.entities[i].brain = "user"

NextSim ==
    \/ calls < MaxSimCalls /\ \E w \in {0, 5} : InitWorld(w, 4)
    \/ calls < MaxSimCalls /\ Len(sim.entities) < MaxEntities /\ Calm
          /\ \E eid \in SimIds : Spawn(eid, "auto")
    \/ calls < MaxSimCalls /\ Len(sim.entities) < MaxEntities
          /\ \E eid \in SimIds : Spawn(eid, "user")
    \/ calls < MaxSimCalls /\ \E eid \in SimIds : Control(eid)
    \/ calls < MaxSimCalls /\ \E d \in {<<1, 0>>, <<0, -1>>, <<-7, 7>>} : Move(d[1], d[2])
    \/ calls < MaxSimCalls /\ \E n \in {0, 2} : TickEnter(n)
    \/ calls < MaxSimCalls /\ Calm /\ result.op = "init" /\ TickEnter(201)
    \/ TickLoop

InitSim ==
    /\ fs = <<>>
    /\ pending = <<>>
    /\ state_file = [exists |-> FALSE, content |-> DefaultState]
    /\ state = _load_state(fs, state_file)
    /\ version_log = <<>>
    /\ evo_log = <<>>
    /\ result = Result("init", "", FALSE, "ok", NoProposal, NoFiles)
    /\ generated = NoneGenerated
    /\ run = NoRun
    /\ calls = 0
    /\ twin = NoTwin
    /\ race = NoRace
    /\ asked = NotAsked
    /\ rl = NoLimiter
    /\ sim \in {EmptyWorld} \cup SavedWorlds

SpecSim == InitSim /\ [][NextSim]_vars

\* The policy gate alone: one submit of a diff generated from a list of
\* target names (allowed, deny-listed, matching no pattern) in every order
PolicyNames == {"A.md", "notes.txt", "requirements.txt", ".env", "run.py"}

TargetLists == UNION {[1..n -> PolicyNames] : n \in 0..MaxTargets}

target_segment(name) == "--- a/" \o name \o "\n+++ b/" \o name \o "\n+x\n"

TargetsProposal(names) ==
    PatchProposal("pT", "test", join("", [i \in 1..Len(names) |-> target_segment(names[i])]))

NextPolicy ==
    \/ result.op = "init" /\ \E names \in TargetLists : Submit(TargetsProposal(names))
    \/ result.op = "submit" /\ \E id \in CallerIds : Approve(id)

SpecPolicy == Init /\ [][NextPolicy]_vars

\* ------------------------------------------------------------------------
\* Claims
\* ------------------------------------------------------------------------

\* file f is the same in two trees: absent in both, or the same content
SameFile(t1, t2, f) ==
    /\ (f \in DOMAIN t1) = (f \in DOMAIN t2)
    /\ f \in DOMAIN t1 /\ f \in DOMAIN t2 => t1[f] = t2[f]

\* the step is a call of operation op
Called(op) == calls' # calls /\ result'.op = op

\* C1: a non-dry-run apply of a proposal naming pairwise distinct files,
\* followed immediately by undo_last, leaves every touched file as it was
\* before the apply (prior content, or absent again).
C1_ApplyUndoRoundTrip ==
    run.active /\ run.distinct_files /\ run.applies = 1 /\ run.undos = 1
        => \A f \in run.touched : SameFile(fs, run.base, f)

\* C2: after n non-dry-run applies (starting with no accepted patch)
\* followed by n undo_last calls every touched file is as before the first
\* apply, and accepted_patches and backups are both empty.
C2_UndoAllRestores ==
    run.active /\ run.empty_start /\ run.undos = run.applies
        => /\ \A f \in run.touched : SameFile(fs, run.base, f)
           /\ state.accepted_patches = <<>>
           /\ DOMAIN state.backups = {}

\* C3: every id in state.accepted_patches is a key of state.backups.
C3_AcceptedHaveBackups ==
    \A i \in 1..Len(state.accepted_patches) : state.accepted_patches[i] \in DOMAIN state.backups

\* C4: the files a non-dry-run apply writes are exactly the filenames
\* policy_check examined at submission, so none of them is deny-listed.
C4_WritesOnlyPolicyChecked ==
    result.op = "apply" /\ result.outcome = "applied"
        => /\ Range(result.files) = Range(extract_touched_files(result.proposal.diff))
           /\ \A f \in Range(result.files) :
                  ~ \E i \in 1..Len(DENY_PATTERNS) : _match(DENY_PATTERNS[i], f)

\* the diff names t as a "+++ b/" target (the generated diffs end every
\* line with "\n")
NamesTarget(diff, t) == contains("\n" \o diff, "\n+++ b/" \o t \o "\n")

Allowed(t) == \E i \in 1..Len(SAFE_PATTERNS) : _match(SAFE_PATTERNS[i], t)

Denied(t) == \E i \in 1..Len(DENY_PATTERNS) : _match(DENY_PATTERNS[i], t)

\* C5: policy_check succeeds exactly when every "+++ b/" target matches the
\* allow-list and none matches the deny-list (so also with no target), and
\* raises PolicyViolation otherwise, wherever the offending target stands.
C5_PolicyCheck ==
    result.op = "submit"
        => (result.outcome = "ok") =
               (\A t \in PolicyNames : NamesTarget(result.proposal.diff, t) => Allowed(t) /\ ~Denied(t))

\* C5 witness: a submit rejected for a deny-listed target that follows two
\* allowed ones.
C5_Witness ==
    /\ result.op = "submit" /\ result.outcome = "PolicyViolation"
    /\ extract_touched_files(result.proposal.diff) = <<"A.md", "notes.txt", "requirements.txt">>

\* C6: a submit of a proposal naming a target the policy does not admit
\* raises PolicyViolation and leaves pending as it was.
C6_RejectedSubmitKeepsPending ==
    [][Called("submit") /\ (\E t \in PolicyNames : NamesTarget(result'.proposal.diff, t) /\ ~(Allowed(t) /\ ~Denied(t)))
          => result'.outcome = "PolicyViolation" /\ pending' = pending]_vars

\* C6 witness: a submit was rejected while another proposal was pending.
C6_Witness ==
    result.op = "submit" /\ result.outcome = "PolicyViolation" /\ Len(pending) = 1

\* the diff holds one of the blacklisted tokens, in any letter case
BlacklistedToken(diff) ==
    \E i \in 1..Len(forbidden) : contains(lower(diff), lower(forbidden[i]))

\* C7: an apply whose approved diff holds a blacklisted token raises
\* SecurityViolation and writes no repository file, backup side-car or
\* version-history record; accepted_patches and backups stay as they were.
C7_SecurityViolationWritesNothing ==
    [][Called("apply") /\ BlacklistedToken(result'.proposal.diff)
          => /\ result'.outcome = "SecurityViolation"
             /\ fs' = fs /\ version_log' = version_log /\ state_file' = state_file
             /\ state'.accepted_patches = state.accepted_patches
             /\ state'.backups = state.backups]_vars

\* C7 witness: a non-dry-run apply of a pending proposal raised
\* SecurityViolation while the file its diff names exists.
C7_Witness ==
    /\ result.op = "apply" /\ result.outcome = "SecurityViolation" /\ ~result.dry_run
    /\ is_file(fs, "A.md")

\* C8: a non-dry-run apply that fails part-way leaves accepted_patches and
\* backups as they were before the call.
C8_FailedApplyKeepsState ==
    [][Called("apply") /\ ~result'.dry_run /\ result'.outcome = "IOError"
          => /\ state'.accepted_patches = state.accepted_patches
             /\ state'.backups = state.backups]_vars

\* C9: a dry-run apply writes no file under the repository root and leaves
\* accepted_patches, backups, cycle and the persisted state unchanged.
C9_DryRunWritesNothing ==
    [][Called("apply") /\ result'.dry_run /\ result'.outcome = "dry-run"
          => fs' = fs /\ version_log' = version_log /\ state' = state /\ state_file' = state_file]_vars

\* C10: approve(id) of an id that is not pending raises NotFound and leaves
\* pending unchanged; an approve(id) right after a successful approve(id)
\* raises NotFound.
C10_ApproveNotFound ==
    [][Called("approve")
          => /\ ~HasId(pending, result'.id) => result'.outcome = "NotFound" /\ pending' = pending
             /\ result.op = "approve" /\ result.outcome = "ok" /\ result.id = result'.id
                    => result'.outcome = "NotFound"]_vars

\* the ids of a list of proposals / of accepted_patches are pairwise distinct
DistinctIds(ids) == \A i, j \in 1..Len(ids) : ids[i] = ids[j] => i = j

\* C11: in the lifecycle driven by cycle() without an API key, with applies
\* and undos interleaved, the ids in pending are pairwise distinct and the
\* ids in accepted_patches are pairwise distinct.
C11_UniqueIds ==
    /\ DistinctIds([i \in 1..Len(pending) |-> pending[i].id])
    /\ DistinctIds(state.accepted_patches)

Rejected(p) ==
    \E t \in PolicyNames : NamesTarget(p.diff, t) /\ ~(Allowed(t) /\ ~Denied(t))

\* C13: when the k-th proposal of the batch of a cycle() is the first one the
\* policy rejects, cycle() raises PolicyViolation, proposals 1..k-1 of the
\* batch are appended to pending and no proposal from the k-th on is.
C13_CycleRaisesPolicyViolation ==
    [][Called("cycle")
          => \A k \in 1..Len(generated'.proposals) :
                 /\ Rejected(generated'.proposals[k])
                 /\ \A j \in 1..(k - 1) : ~Rejected(generated'.proposals[j])
                 => /\ result'.outcome = "PolicyViolation"
                    /\ Len(pending') = Len(pending) + (k - 1)
                    /\ SubSeq(pending', 1, Len(pending)) = pending
                    /\ \A j \in 1..(k - 1) :
                           /\ pending'[Len(pending) + j].id = generated'.proposals[j].id
                           /\ pending'[Len(pending) + j].diff = generated'.proposals[j].diff]_vars

\* C13 witness: a cycle() raised PolicyViolation at the second of three
\* suggestions, with one proposal pending before it: two are pending now.
C13_Witness ==
    /\ result.op = "cycle" /\ result.outcome = "PolicyViolation"
    /\ generated.raw = r_deny2 /\ Len(pending) = 2
    /\ pending[2].id = "x1"

\* the responses that hold no usable element: sentinel strings, prose,
\* malformed JSON, JSON that is no array, arrays without an object
NoUsableElement ==
    {r_sentinel, r_http, r_prose, r_malformed, r_object, r_nested, r_scalars, r_empty}

\* C14: whatever text the ChatCompleter returned, propose did not raise and
\* returned at most 3 proposals, and for a response without a usable element
\* exactly the fallback list of the counter it was called with.
C14_ProposeNeverRaises ==
    generated.raw \in Responses
        => /\ ~generated.raised
           /\ Len(generated.proposals) <= 3
           /\ generated.raw \in NoUsableElement
                  => generated.proposals = _fallback_static(generated.cycle)

\* C14 witness: the client answered malformed JSON at counter 1 and propose
\* returned the one fallback proposal of that counter.
C14_Witness ==
    /\ generated.raw = r_malformed /\ generated.cycle = 1
    /\ Len(generated.proposals) = 1 /\ generated.proposals[1].id = "p2"

\* the proposal p as cycle() hands it to the gate: with its score attached
Scored(p) == [p EXCEPT !.score = score(p)]

\* C15: without an API key, cycle() at counter c returns the canned
\* proposals of c, and appends them, each carrying its score, in order at
\* the tail of pending; the first cycle() of a fresh Orchestrator leaves
\* state.cycle = 1 and the Contributing-guide proposal pending.
C15_CycleReturnsFallback ==
    [][Called("cycle")
          => LET canned == _fallback_static(state.cycle)
                 n == Len(pending)
             IN  /\ result'.outcome = "ok"
                 /\ result'.files = [j \in 1..Len(canned) |-> canned[j].id]
                 /\ Len(pending') = n + Len(canned)
                 /\ SubSeq(pending', 1, n) = pending
                 /\ \A j \in 1..Len(canned) :
                        /\ pending'[n + j] = Scored(canned[j])
                        /\ pending'[n + j].score.scored
                 /\ (calls = 0 /\ ~state_file.exists)
                        => /\ state'.cycle = 1
                           /\ \E i \in 1..Len(pending') :
                                  /\ pending'[i].id = "p1"
                                  /\ NamesTarget(pending'[i].diff, "CONTRIBUTING.md")]_vars

\* C15 witness: the third cycle() has run, at counter 2 with the two
\* proposals of counter 0 still pending, and the architecture proposal was
\* appended behind them with its score.
C15_Witness ==
    /\ result.op = "cycle" /\ result.outcome = "ok" /\ state.cycle = 3
    /\ result.files = <<"p_arch">>
    /\ Len(pending) >= 3
    /\ pending[1].id = "p1" /\ pending[2].id = "p2"
    /\ pending[Len(pending)].id = "p_arch" /\ pending[Len(pending)].score.scored

NoMarker(diff) ==
    ~ \E i \in 1..Len(diff) :
          /\ i + 5 <= Len(diff) /\ SubSeq(diff, i, i + 5) = "+++ b/"
          /\ (i = 1 \/ IsLineBreak(Ch(diff, i - 1)))

\* what C17 says stays as it was
NothingApplied ==
    /\ fs' = fs /\ state' = state /\ state_file' = state_file /\ version_log' = version_log

\* C17 as stated: an apply of a pending proposal whose diff has no line
\* starting with "+++ b/" returns 'nothing to apply', dry-run or not, and
\* changes no repository file, accepted_patches, backups or persisted state.
C17_NoMarkerNothingToApply ==
    [][Called("apply") /\ result'.outcome # "NotFound" /\ NoMarker(result'.proposal.diff)
          => result'.outcome = "nothing" /\ NothingApplied]_vars

\* C17, amended: such an apply returns 'nothing to apply' when the diff holds
\* no blacklisted token and raises SecurityViolation when it holds one; in
\* both cases no repository file, accepted_patches, backups or persisted
\* state changes.
C17_NoMarkerNothingUnlessBlacklisted ==
    [][Called("apply") /\ result'.outcome # "NotFound" /\ NoMarker(result'.proposal.diff)
          => /\ result'.outcome =
                   (IF BlacklistedToken(result'.proposal.diff) THEN "SecurityViolation" ELSE "nothing")
             /\ NothingApplied]_vars

\* C17 witness: a non-dry-run apply of a pending diff without marker and
\* without blacklisted token returned 'nothing to apply'.
C17_Witness ==
    /\ result.op = "apply" /\ result.outcome = "nothing" /\ ~result.dry_run
    /\ result.proposal.diff # ""
    /\ NoMarker(result.proposal.diff) /\ ~BlacklistedToken(result.proposal.diff)

\* the last call was a cycle(), a non-dry-run apply or an undo_last() that
\* returned to its caller
Completed ==
    \/ result.op = "cycle" /\ result.outcome = "ok"
    \/ result.op = "apply" /\ ~result.dry_run /\ result.outcome = "applied"
    \/ result.op = "undo" /\ result.outcome = "undone"

\* C18: after a completed cycle(), non-dry-run apply or undo_last() the state
\* file holds the in-memory state, and an Orchestrator constructed on the
\* repository loads the same objectives, cycle, accepted_patches and backups.
C18_PersistedStateEqualsMemory ==
    Completed
        => /\ state_file.exists /\ is_file(fs, STATE_FILE)
           /\ state_file.content = state
           /\ _load_state(fs, state_file) = state

\* the outcomes of a call that left before it reached a persistence write
NoWriteAttempted ==
    {"NotFound", "PolicyViolation", "SecurityViolation", "ProposeError",
     "None", "nothing", "dry-run", "IOError"}

\* C19: a cycle(), apply or undo_last() whose write of the state file or of
\* the audit log fails still returns to its caller, and the in-memory state
\* has the call's effect: the counter incremented, the id pushed with its
\* backups, or the id popped with its backups removed.
C19_WriteFailureDoesNotRaise ==
    [][(/\ Called("cycle") \/ Called("apply") \/ Called("undo")
        /\ result'.outcome \notin NoWriteAttempted
        /\ is_dir(fs', STATE_FILE) \/ is_dir(fs', EVO_LOG))
          => /\ result'.outcome \in {"ok", "applied", "undone"}
             /\ result'.op = "cycle" => state'.cycle = state.cycle + 1
             /\ result'.op = "apply"
                    => /\ state'.accepted_patches = Append(state.accepted_patches, result'.id)
                       /\ result'.id \in DOMAIN state'.backups
             /\ result'.op = "undo"
                    => /\ Len(state.accepted_patches) > 0
                       /\ state'.accepted_patches
                              = SubSeq(state.accepted_patches, 1, Len(state.accepted_patches) - 1)
                       /\ result'.id \notin DOMAIN state'.backups]_vars

\* C20: the version-history log only grows at its end; a non-dry-run apply
\* appends one record per file it wrote, in segment order, each with the
\* proposal's id, the file name and the current cycle; every other call
\* leaves the log as it was.
C20_VersionLogOneRecordPerFile ==
    [][/\ Len(version_log') >= Len(version_log)
       /\ SubSeq(version_log', 1, Len(version_log)) = version_log
       /\ Called("apply") /\ ~result'.dry_run
              => LET n == Len(version_log)
                     written == result'.files
                 IN  /\ Len(version_log') = n + Len(written)
                     /\ \A j \in 1..Len(written) :
                            /\ version_log'[n + j].proposal = result'.id
                            /\ version_log'[n + j].file = written[j]
                            /\ version_log'[n + j].cycle = state.cycle
       /\ ~(Called("apply") /\ ~result'.dry_run) => version_log' = version_log]_vars

\* the files and directories of the main tree: what lies outside .twin
MainTree(tree) ==
    [q \in {r \in DOMAIN tree : ~startswith(r, TWIN_DIR \o "/")} |-> tree[q]]

MainDirs(tree, dirs) ==
    {d \in all_dirs(tree, dirs) : d # TWIN_DIR /\ ~startswith(d, TWIN_DIR \o "/")}

\* rel is a sandbox file of an allowed type outside the ignored directories
AllowListed(rel) == parts(rel) \cap IGNORE_DIRS = {} /\ suffix(rel) \in ALLOWED_EXT

\* C21: diff_changed_files() on a sandbox it has to initialize itself, or
\* that init_sandbox(force=True) has just built, returns the empty list; in
\* general it returns, sorted, the allow-listed sandbox files that the
\* baseline does not hold or holds with another hash.
C21_DiffChangedFiles ==
    [][Called("diff_changed_files")
          => /\ (\/ ~dir_exists(fs, twin.dirs, SANDBOX_DIR)
                 \/ result.op = "init_sandbox" /\ result.dry_run)
                    => result'.files = <<>>
             /\ LET listed == Range(result'.files)
                IN  /\ \A rel \in listed : AllowListed(rel) /\ is_file(fs', join_path(SANDBOX_DIR, rel))
                    /\ \A i, j \in 1..Len(result'.files) :
                           i < j => str_less(result'.files[i], result'.files[j])
                    /\ \A rel \in files_below(fs', SANDBOX_DIR) :
                           AllowListed(rel)
                               => (rel \in listed
                                     <=> \/ rel \notin DOMAIN twin'.baseline
                                         \/ twin'.baseline[rel] # _hash_file(sandbox_bytes(fs', twin', rel)))]_vars

\* C22: init_sandbox(force=False) on an existing sandbox changes no file,
\* no directory and not the baseline hash map, whatever happened to the
\* main tree or the sandbox since the sandbox was built.
C22_InitSandboxIdempotent ==
    [][Called("init_sandbox") /\ ~result'.dry_run /\ dir_exists(fs, twin.dirs, SANDBOX_DIR)
          => /\ fs' = fs
             /\ twin'.baseline = twin.baseline
             /\ twin' = twin]_vars

\* C22 witness: init_sandbox(force=False) returned on a sandbox built
\* before the main tree's A.md was rewritten: the sandbox still holds the
\* old A.md and the baseline still names its hash.
C22_Witness ==
    /\ result.op = "init_sandbox" /\ ~result.dry_run
    /\ is_file(fs, "A.md") /\ fs["A.md"] = "main edit\n"
    /\ is_file(fs, ".twin/sandbox/A.md") /\ fs[".twin/sandbox/A.md"] = "text of A.md\n"
    /\ "A.md" \in DOMAIN twin.baseline
    /\ twin.baseline["A.md"] = _hash_file("text of A.md\n")

\* C23: sandbox_cycle leaves the main tree's files and directories outside
\* .twin, the main orchestrator's state file and in-memory state, its
\* pending list and its logs as they were; the counter it advances is the
\* one of the state file in the sandbox.
C23_SandboxCycleIsolated ==
    [][Called("sandbox_cycle")
          => /\ MainTree(fs') = MainTree(fs)
             /\ MainDirs(fs', twin'.dirs) = MainDirs(fs, twin.dirs)
             /\ state_file' = state_file /\ state' = state
             /\ pending' = pending
             /\ evo_log' = evo_log /\ version_log' = version_log
             /\ is_file(fs', join_path(SANDBOX_DIR, STATE_FILE))
             /\ twin'.sandbox_state_file.exists
             /\ twin'.sandbox_state_file.content.cycle >= asked'.cycles]_vars

\* C23 witness: after one cycle() of the main orchestrator, sandbox_cycle(2)
\* returned: the main counter and state file say 1 with two proposals
\* pending, the sandbox state file says 3.
C23_Witness ==
    /\ result.op = "sandbox_cycle" /\ result.outcome = "ok" /\ asked.cycles = 2
    /\ state.cycle = 1 /\ state_file.exists /\ state_file.content.cycle = 1
    /\ Len(pending) = 2
    /\ twin.sandbox_state_file.content.cycle = 3
    /\ result.files = <<"p2", "p_arch">>

\* the list promote reports for a selection
Reported(selected, dry_run) ==
    [i \in 1..Len(selected) |-> selected[i] \o (IF dry_run THEN " (dry)" ELSE "")]

\* C24: promote(files, dry_run) that returns selects the changed files that
\* are in files when a list is given, the empty list included, and all
\* changed files when none is given; it reports exactly the selected files.
C24_PromoteSelection ==
    [][Called("promote") /\ result'.outcome = "ok"
          => LET all_changed == diff_changed_files(ThisWorld, MainOrder).changed
                 files == asked'.files
                 selected == IF files.given
                             THEN SelectSeq(all_changed, LAMBDA f : f \in files.names)
                             ELSE all_changed
             IN  result'.files = Reported(selected, result'.dry_run)]_vars

\* C25: promote(dry_run=True) changes no file and no directory of the main
\* tree, and reports the files a promote(dry_run=False) with the same
\* argument would copy.
C25_PromoteDryRunFrame ==
    [][Called("promote") /\ result'.dry_run
          => /\ MainTree(fs') = MainTree(fs)
             /\ MainDirs(fs', twin'.dirs) = MainDirs(fs, twin.dirs)
             /\ state_file' = state_file
             /\ result'.files
                    = Reported(promote(ThisWorld, asked'.files, FALSE, MainOrder).promoted, TRUE)]_vars

\* the folder the snapshot with this id was copied into
folder_of(snap_id) == join_path(SNAP_DIR, snap_id)

\* the snapshot taken under snap_id is recorded and its folder still holds
\* the allow-listed files of the main tree as they were at create time
Stored(tree, tw, taken, snap_id) ==
    /\ snap_id \in DOMAIN taken
    /\ HasSnapshot(_load_all(tree, tw), snap_id)
    /\ [rel \in _iter_files(tree, folder_of(snap_id)) |-> tree[join_path(folder_of(snap_id), rel)]]
           = taken[snap_id]

\* C26: when restore(s.id) returns true for a snapshot s whose folder is as
\* create left it, every allow-listed file of the main tree that existed
\* when s was created is a file with its create-time content again,
\* whatever was written or removed in the main tree since; and create and
\* restore leave the folders of the other snapshots as they were.
C26_SnapshotRoundTrip ==
    [][/\ Called("restore") /\ result'.outcome = "true"
          /\ Stored(fs, twin, asked.taken, result'.id)
             => \A f \in DOMAIN asked.taken[result'.id] :
                    is_file(fs', f) /\ fs'[f] = asked.taken[result'.id][f]
       /\ Called("restore") \/ Called("create")
             => \A snap_id \in DOMAIN asked.taken :
                    snap_id # result'.id
                        => subtree(fs', folder_of(snap_id)) = subtree(fs, folder_of(snap_id))]_vars

\* C27: restore(id) returns false and leaves the main tree as it was when
\* no snapshot with that id is recorded or its folder is missing, and
\* returns true otherwise.
C27_RestoreReturns ==
    [][Called("restore")
          => IF \/ ~HasSnapshot(_load_all(fs, twin), result'.id)
                \/ ~dir_exists(fs, twin.dirs, folder_of(result'.id))
             THEN /\ result'.outcome = "false"
                  /\ MainTree(fs') = MainTree(fs)
                  /\ MainDirs(fs', twin'.dirs) = MainDirs(fs, twin.dirs)
             ELSE result'.outcome = "true"]_vars

\* C28: a create that returns appends one entry to the recorded snapshots
\* and leaves the earlier entries as they were; the new entry's folder is
\* the folder of no earlier entry, the k-th entry has id s<k>, and no two
\* entries share an id.
C28_SequentialIds ==
    [][Called("create") /\ result'.outcome = "ok"
          => LET before == twin.meta
                 after  == twin'.meta
                 n      == Len(after)
             IN  /\ n = Len(before) + 1
                 /\ SubSeq(after, 1, n - 1) = before
                 /\ after[n].id = result'.id
                 /\ \A i \in 1..(n - 1) : before[i].path # after[n].path
                 /\ \A k \in 1..n : after[k].id = "s" \o ToString(k)
                 /\ \A i, j \in 1..n : after[i].id = after[j].id => i = j
                 /\ [i \in 1..n |-> after[i]] = _load_all(fs', twin')]_vars

\* C28 witness: a third create returned s3 after the folder of s1 was
\* removed: three entries are recorded, s1 still among them.
C28_Witness ==
    /\ result.op = "create" /\ result.outcome = "ok" /\ result.id = "s3"
    /\ Len(twin.meta) = 3
    /\ twin.meta[1].id = "s1" /\ twin.meta[3].path = ".twin/snapshots/s3"
    /\ ~dir_exists(fs, twin.dirs, ".twin/snapshots/s1")
    /\ dir_exists(fs, twin.dirs, ".twin/snapshots/s3")

\* C29: scoring returns for a description of any length; every Score has
\* clarity 0.8, risk 0.2 and effort 0.3 and an impact between 0.6 and 0.9
\* that depends on the description only and does not fall when the
\* description gets longer; its composite lies between 0 and 2.
C29_ScoreBounded ==
    /\ result.op = "score" => result.outcome = "ok" /\ result.proposal.score.scored
    /\ \A i \in 1..Len(pending) :
           LET s == pending[i].score
           IN  s.scored
                 => /\ s.clarity = 800 /\ s.risk = 200 /\ s.effort = 300
                    /\ 600 <= s.impact /\ s.impact <= 900
                    /\ composite(s) = 2 * (s.clarity + s.impact) - (s.risk + s.effort)
                    /\ 0 <= composite(s) /\ composite(s) <= 4000
    /\ \A i, j \in 1..Len(pending) :
           pending[i].score.scored /\ pending[j].score.scored
             => /\ Len(pending[i].description) <= Len(pending[j].description)
                      => pending[i].score.impact <= pending[j].score.impact
                /\ pending[i].description = pending[j].description
                      => pending[i].score = pending[j].score

\* C29 witness: the empty description scored with impact 0.6 and composite
\* 1.15, a description of more than 60 characters with impact 0.9 and
\* composite 1.45.
C29_Witness ==
    /\ Len(pending) = 2
    /\ pending[1].description = "" /\ pending[1].score.scored
    /\ pending[1].score.impact = 600 /\ composite(pending[1].score) = 2300
    /\ Len(pending[2].description) > 60 /\ pending[2].score.scored
    /\ pending[2].score.impact = 900 /\ composite(pending[2].score) = 2900

\* both concurrent calls have returned
Returned == race.active /\ \A t \in 1..2 : race.th[t].pc = "done"

\* every accepted proposal has been undone again
UndoneAll == Returned /\ state.accepted_patches = <<>> /\ result.op = "undo"

\* the file both proposals rewrite is as it was before the two calls
Restored ==
    IF RaceFile \in DOMAIN race.base
    THEN is_file(fs, RaceFile) /\ fs[RaceFile] = race.base[RaceFile]
    ELSE ~exists(fs, RaceFile)

\* the content the proposal with this id writes to the file
Written(id) ==
    LET p == RaceProposals[CHOOSE i \in 1..Len(RaceProposals) : RaceProposals[i].id = id]
    IN  _reconstruct(segments_of(p.diff)[1].lines)

\* the backup file recorded for the proposal with this id
BackupOf(id) ==
    IF is_file(fs, backup_path_of(RaceFile, id)) THEN fs[backup_path_of(RaceFile, id)] ELSE ""

\* C30: the loss of the original content is due to the interleaving of the
\* two calls. When one call returned before the other began, the backup of
\* the first proposal holds the original content and the backup of the
\* second what the first wrote, and undoing both restores the file; so a
\* file that is not restored after both undos comes from calls that ran
\* interleaved. (That such an interleaving exists is C30_Witness.)
C30_ApplyRace ==
    /\ Returned /\ ~race.overlapped /\ Len(state.accepted_patches) = 2
       /\ RaceFile \in DOMAIN race.base
          => /\ BackupOf(state.accepted_patches[1]) = race.base[RaceFile]
             /\ BackupOf(state.accepted_patches[2]) = Written(state.accepted_patches[1])
    /\ UndoneAll /\ ~Restored => race.overlapped

\* C30 witness: the two calls ran interleaved, the backup recorded for pA
\* holds what pB wrote instead of the original content, and after two
\* undo_last() calls the file holds what pB wrote.
C30_Witness ==
    /\ UndoneAll /\ race.overlapped /\ calls = 4
    /\ RaceFile \in DOMAIN race.base /\ race.base[RaceFile] = "original\n"
    /\ is_file(fs, backup_path_of(RaceFile, "pA")) /\ is_file(fs, backup_path_of(RaceFile, "pB"))
    /\ is_file(fs, RaceFile)
    /\ BackupOf("pA") = Written("pB")
    /\ BackupOf("pB") = "original\n"
    /\ fs[RaceFile] = Written("pB")
    /\ ~Restored

\* the path leads out of the repository root: it is absolute or begins
\* with a '..' component
OutsideRoot(path) == startswith(path, "/") \/ path = ".." \/ startswith(path, "../")

\* C31: an apply of a diff that names a target outside the repository root
\* ends with SecurityViolation and writes nothing, and no file outside the
\* root ever exists.
C31_TraversalRejected ==
    [][Called("apply")
          => /\ (\E f \in Range(segment_files(segments_of(result'.proposal.diff))) : OutsideRoot(f))
                    => result'.outcome = "SecurityViolation" /\ fs' = fs
             /\ \A path \in DOMAIN fs' : ~OutsideRoot(path)]_vars

\* C32: after one non-dry-run apply of a diff that names a file in more
\* than one segment, followed immediately by undo_last, every touched file
\* is as it was before the apply (prior content, or absent again).
C32_RepeatedFileUndone ==
    run.active /\ ~run.distinct_files /\ run.applies = 1 /\ run.undos = 1
        => \A f \in run.touched : SameFile(fs, run.base, f)

\* C33: in the backup records of a proposal, two records for different
\* files never name the same backup file.
C33_OwnBackupPerFile ==
    \A id \in DOMAIN state.backups :
        \A i, j \in 1..Len(state.backups[id]) :
            LET a == state.backups[id][i]
                b == state.backups[id][j]
            IN  a.file # b.file /\ a.path # NoPath /\ b.path # NoPath => a.path # b.path

\* C34: an apply that ends with NotFound finds no pending proposal of that
\* id and leaves pending as it was; an apply with any other outcome takes
\* the first pending proposal of that id out of pending and leaves the
\* others in their order.
C34_ApplyConsumesPending ==
    [][Called("apply")
          => IF result'.outcome = "NotFound"
             THEN ~HasId(pending, result'.id) /\ pending' = pending
             ELSE /\ HasId(pending, result'.id)
                  /\ result'.proposal = pending[FirstIndex(pending, result'.id)]
                  /\ pending' = RemoveAt(pending, FirstIndex(pending, result'.id))]_vars

\* C34 witness: a dry-run apply took the proposal out of pending, and the
\* apply of the same id that followed ended with NotFound.
C34_Witness ==
    /\ result.op = "apply" /\ result.outcome = "NotFound" /\ result.id = "pTwice"
    /\ calls = 3 /\ pending = <<>>
    /\ result.proposal = NoProposal
    /\ is_file(fs, "A.md") /\ fs["A.md"] = "alt\n"
    /\ state.accepted_patches = <<>>

\* C35: promote leaves the main orchestrator's state file as it was: the
\* state a newly constructed Orchestrator loads is the same before and
\* after the call.
C35_PromoteKeepsMainState ==
    [][Called("promote")
          => /\ state_file' = state_file
             /\ _load_state(fs', state_file') = _load_state(fs, state_file)]_vars

\* the ids of the canned proposals of the counters below c
IdsOf(proposals) == {proposals[i].id : i \in 1..Len(proposals)}

EarlierIds(c) == UNION {IdsOf(_fallback_static(k)) : k \in 0..(c - 1)}

\* what C36 says of a restart, of an apply that follows it, and of a
\* cycle at counter 5 or above
RestartForgets ==
    /\ Called("restart") => pending' = <<>> /\ state'.cycle = state.cycle
                              /\ state' = state_file.content
    /\ Called("apply") /\ result.op = "restart"
          => result'.outcome = "NotFound" /\ pending' = <<>>
    /\ Called("cycle") /\ state.cycle >= 5
          => generated'.proposals = <<>> /\ result'.files = <<>> /\ pending' = pending

\* C36 as stated: a new Orchestrator has no pending proposal and the
\* persisted counter, an apply after the restart is NotFound, no cycle
\* without an API key generates a canned proposal of a counter already
\* passed, and from counter 5 on a cycle generates nothing.
C36_RestartNeverRepeats ==
    [][/\ RestartForgets
       /\ Called("cycle")
             => IdsOf(generated'.proposals) \cap EarlierIds(state.cycle) = {}]_vars

\* C36 amended: as above, except that the cycle at counter 1 generates
\* "p2" once more, which the cycle at counter 0 generated already; no
\* other canned proposal of a counter already passed is generated again.
C36_RestartRepeatsOnlyReadme ==
    [][/\ RestartForgets
       /\ Called("cycle")
             => /\ IdsOf(generated'.proposals) \cap EarlierIds(state.cycle)
                      = IF state.cycle = 1 THEN {"p2"} ELSE {}
                /\ generated'.cycle = state_file.content.cycle]_vars

\* C36 witness: one cycle, a new Orchestrator, then the apply of "p1",
\* which the cycle had generated: not found, nothing written
C36_Witness ==
    /\ calls = 3
    /\ result.op = "apply" /\ result.id = "p1" /\ result.outcome = "NotFound"
    /\ "p1" \in IdsOf(generated.proposals)
    /\ state.cycle = 1 /\ state_file.exists /\ state_file.content.cycle = 1
    /\ pending = <<>>
    /\ "CONTRIBUTING.md" \notin DOMAIN fs

\* the text from the first "[" of txt through the "]" that closes it,
\* brackets counted where keep(i) holds; <<>> when there is none
BlockOf(txt, keep(_)) ==
    LET opens  == {i \in 1..Len(txt) : Ch(txt, i) = "[" /\ keep(i)}
        start  == CHOOSE i \in opens : \A j \in opens : i <= j
        depth(i) == Cardinality({j \in start..i : Ch(txt, j) = "[" /\ keep(j)})
                    - Cardinality({j \in start..i : Ch(txt, j) = "]" /\ keep(j)})
        closes == {i \in start..Len(txt) : Ch(txt, i) = "]" /\ keep(i) /\ depth(i) = 0}
        close  == CHOOSE i \in closes : \A j \in closes : i <= j
    IN  IF opens = {} THEN [found |-> FALSE, text |-> "", from |-> 0, to |-> 0]
        ELSE IF closes = {} THEN [found |-> FALSE, text |-> "", from |-> 0, to |-> 0]
        ELSE [found |-> TRUE, text |-> SubSeq(txt, start, close), from |-> start, to |-> close]

\* every bracket counted
first_block(raw) == BlockOf(strip(raw), LAMBDA i : TRUE)

\* the brackets of the JSON text counted, those inside its strings not
\* (the modelled answers hold no escaped quote)
array_block(raw) ==
    BlockOf(strip(raw),
            LAMBDA i : Cardinality({j \in 1..(i - 1) : Ch(strip(raw), j) = "\""}) % 2 = 0)

\* raw is prose without brackets around one JSON array of at least one
\* suggestion object
ProseAroundSuggestions(raw) ==
    LET txt == strip(raw)
        b   == array_block(raw)
        outside == (1..Len(txt)) \ (b.from..b.to)
    IN  /\ b.found
        /\ \A i \in outside : Ch(txt, i) \notin {"[", "]"}
        /\ json_loads(b.text).kind = "array"
        /\ json_loads(b.text).items # <<>>
        /\ \A k \in 1..Len(json_loads(b.text).items) : json_loads(b.text).items[k].kind = "object"

\* C37: of an answer that holds a "[" closed later, the generator parses
\* the text from the first "[" through the "]" that closes it, and an
\* answer of prose around one array of suggestion objects yields the
\* proposals built from that array, not the canned list.
C37_ParsesFirstArray ==
    [][Called("cycle")
          => /\ first_block(generated'.raw).found
                   => _extract_json_block(generated'.raw) = first_block(generated'.raw).text
             /\ ProseAroundSuggestions(generated'.raw)
                   => /\ generated'.proposals
                           = suggestions(Prefix(json_loads(array_block(generated'.raw).text).items, 3),
                                         <<"a1b2c3", "d4e5f6", "0718ab">>)
                      /\ generated'.proposals # _fallback_static(state.cycle)]_vars

\* the lines of the one segment of a diff made by DiffOf
LinesOf(diff) == segments_of(diff)[1].lines

\* what C38 says reconstruct returns: the kept lines, each right-trimmed,
\* joined by newlines, ending in exactly one newline
StatedText(lines) ==
    LET new_lines == kept_lines(lines)
    IN  rstrip(join("\n", [i \in 1..Len(new_lines) |-> rstrip(new_lines[i])])) \o "\n"

\* C38: the file an apply writes holds the kept lines of its segment (a
\* leading "+" that is no "+++" stripped, "-" lines dropped, other lines
\* verbatim), each right-trimmed, joined by newlines and ended by exactly
\* one newline; a single newline when no line is kept.
C38_ReconstructKeepsLines ==
    [][Called("apply") /\ result'.outcome = "applied" /\ ~result'.dry_run
          => /\ is_file(fs', "A.md")
             /\ fs'["A.md"] = StatedText(LinesOf(result'.proposal.diff))
             /\ _reconstruct(LinesOf(result'.proposal.diff))
                   = StatedText(LinesOf(result'.proposal.diff))]_vars

\* C39: in a window of the limiter _rate_limit_allow answers True at most
\* RATE_LIMIT_PER_MIN times in total and at most max(10, RATE_LIMIT_PER_MIN
\* // 4) times per IP, however the callers interleave; a call that read
\* the time 60 s or more after the window's start starts a new window
\* with cleared counters and is answered True.
C39_RateLimited ==
    [][Called("_rate_limit_allow")
          => /\ rl'.allowed <= rl.RATE_LIMIT_PER_MIN
             /\ \A ip \in DOMAIN rl'.allowed_by_ip :
                    rl'.allowed_by_ip[ip] <= Max(10, rl.RATE_LIMIT_PER_MIN \div 4)
             /\ rl'.last.now - rl.window_start >= 60
                    => /\ rl'.window_start = rl'.last.now
                       /\ rl'.global_count = 1
                       /\ rl'.ip_counts = dict_set(<<>>, result'.id, 1)
                       /\ result'.outcome = "True"
             /\ rl'.last.now - rl.window_start < 60
                    => /\ rl'.window_start = rl.window_start
                       /\ rl'.global_count = rl.global_count + 1]_vars

\* C39 witness: with the limit 11 one IP was answered True ten times in
\* the window and its eleventh call, the eleventh of the window, False
C39_Witness ==
    /\ rl.active
    /\ rl.RATE_LIMIT_PER_MIN = 11
    /\ result.op = "_rate_limit_allow" /\ result.outcome = "False"
    /\ rl.global_count = 11
    /\ rl.allowed = 10
    /\ rl.allowed_by_ip = dict_set(<<>>, result.id, 10)
    /\ rl.window_start = 60

\* every entity is on the grid, with energy in [0, 1], knowledge at most
\* 10 and material at most 5
OnGrid(st) ==
    \A i \in 1..Len(st.entities) :
        LET e == st.entities[i]
        IN  /\ 0 <= e.x /\ e.x < st.w
            /\ 0 <= e.y /\ e.y < st.h
            /\ 0 <= e.energy /\ e.energy <= 1000
            /\ e.knowledge <= 10000
            /\ e.material <= 5000

\* C40: after init_world, spawn, control, move and tick in any order every
\* entity is on the grid with energy in [0, 1], knowledge <= 10 and
\* material <= 5, and a tick(n) on an initialised world adds n, clamped
\* to 1..200, to the tick counter.
C40_WorldInBounds ==
    [][/\ OnGrid(sim')
       /\ Called("tick") /\ result'.outcome = "ok"
             => /\ sim.w > 0
                /\ sim'.ticks = sim'.from + Max(1, Min(200, sim'.n))
       /\ Called("tick") /\ result'.outcome = "uninitialised"
             => sim' = sim /\ sim.w <= 0]_vars

\* C40 witness: in the saved 4x4 world a tick(0) counted one tick and
\* brought the controlled entity's knowledge and material to their caps;
\* the move to the right then left it in the last column, with no energy
C40_Witness ==
    /\ sim.active
    /\ calls = 2
    /\ result.op = "move" /\ result.outcome = "ok"
    /\ sim.w = 4 /\ sim.ticks = 1001
    /\ Len(sim.entities) = 2
    /\ sim.entities[2] = Entity("e2", "user", 3, 0, 0, 10000, 5000)

====
